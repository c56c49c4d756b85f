---------------------------- MODULE MCOIDCCache ----------------------------
(* Two administrators, one stream of page requests, and as many fetches as the  *)
(* drops of the cache can leave in flight.                                      *)
EXTENDS OIDCCache

CONSTANTS config1, config2, env, page1, admin1, admin2, f1, f2, f3

MCSettings == {config1, config2}
MCVisitors == {page1}
MCAdmins == {admin1, admin2}
MCFetches == {f1, f2, f3}
=============================================================================
