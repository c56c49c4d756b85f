----------------------------- MODULE Broadcaster -----------------------------
(***************************************************************************)
(* The audit trail's subscribers (audit_broadcaster.go).  Every proxied    *)
(* request ends by broadcasting its audit event: under the read lock, one  *)
(* subscriber after another, into a channel with room for Cap events, and  *)
(* past a channel that is full.  A live stream subscribes under the write  *)
(* lock, and when its client is gone takes its channel out under the lock  *)
(* and closes it after the unlock.                                         *)
(*                                                                         *)
(* Broadcasts share the lock and interleave.  That a waiting writer holds  *)
(* back new readers is left out: it only removes interleavings.            *)
(***************************************************************************)
EXTENDS Naturals, Sequences

CONSTANTS
    Conns,      \* connections of live streams, each with a channel of its own
    Events,     \* audit events, one for each proxied request
    Cap         \* room in a channel: 64 in the code

ASSUME BroadcasterAssumption == Cap \in Nat

VARIABLES
    stage,      \* of a channel: "unused", "open", "removed" from the subscribers, "closed"
    chan,       \* events waiting in a channel
    casts       \* broadcasts: not begun, under way with the subscribers still to come, or ended

bvars == <<stage, chan, casts>>

BroadcasterInit ==
    /\ stage = [c \in Conns |-> "unused"]
    /\ chan = [c \in Conns |-> <<>>]
    /\ casts = [e \in Events |-> [at |-> "idle", left |-> {}]]

subscribers == {c \in Conns : stage[c] = "open"}

\* The write lock is free of readers.
Lockable == \A e \in Events : casts[e].at # "sending"

Subscribe(c) ==
    /\ stage[c] = "unused" /\ Lockable
    /\ stage' = [stage EXCEPT ![c] = "open"]
    /\ UNCHANGED <<chan, casts>>

MutUnsubscribeUnlocked(c) ==
    /\ stage[c] = "open"
    /\ stage' = [stage EXCEPT ![c] = "removed"]
    /\ UNCHANGED <<chan, casts>>
Unsubscribe(c) ==
    /\ stage[c] = "open" /\ Lockable
    /\ stage' = [stage EXCEPT ![c] = "removed"]
    /\ UNCHANGED <<chan, casts>>

Close(c) ==
    /\ stage[c] = "removed"
    /\ stage' = [stage EXCEPT ![c] = "closed"]
    /\ UNCHANGED <<chan, casts>>

\* The stream's handler takes the next event.
Receive(c) ==
    /\ stage[c] = "open" /\ chan[c] # <<>>
    /\ chan' = [chan EXCEPT ![c] = Tail(@)]
    /\ UNCHANGED <<stage, casts>>

Broadcast(e) ==
    /\ casts[e].at = "idle"
    /\ casts' = [casts EXCEPT ![e] = [at |-> "sending", left |-> subscribers]]
    /\ UNCHANGED <<stage, chan>>

\* A full channel is passed over.
Offered(c, e) == IF Len(chan[c]) < Cap THEN Append(chan[c], e) ELSE chan[c]

MutSentTwice(e, c) == [casts EXCEPT ![e].left = IF chan[c] = <<>> THEN @ ELSE @ \ {c}]
Sent(e, c) == [casts EXCEPT ![e].left = @ \ {c}]

MutSendWaits(e, c) ==
    /\ casts[e].at = "sending" /\ c \in casts[e].left /\ Len(chan[c]) < Cap
    /\ chan' = [chan EXCEPT ![c] = Append(@, e)]
    /\ casts' = [casts EXCEPT ![e].left = @ \ {c}]
    /\ UNCHANGED stage
Send(e, c) ==
    /\ casts[e].at = "sending" /\ c \in casts[e].left
    /\ chan' = [chan EXCEPT ![c] = Offered(c, e)]
    /\ casts' = Sent(e, c)
    /\ UNCHANGED stage

Finish(e) ==
    /\ casts[e].at = "sending" /\ casts[e].left = {}
    /\ casts' = [casts EXCEPT ![e].at = "done"]
    /\ UNCHANGED <<stage, chan>>

BroadcasterNext ==
    \/ \E c \in Conns : Subscribe(c) \/ Unsubscribe(c) \/ Close(c) \/ Receive(c)
    \/ \E e \in Events : Broadcast(e) \/ Finish(e) \/ \E c \in Conns : Send(e, c)

BroadcasterSpec == BroadcasterInit /\ [][BroadcasterNext]_bvars

(***************************************************************************)
(* Properties                                                              *)
(***************************************************************************)

\* The variables stay in their types, and no channel holds more than it has room for.
ChannelsOK ==
    /\ stage \in [Conns -> {"unused", "open", "removed", "closed"}]
    /\ chan \in [Conns -> Seq(Events)]
    /\ casts \in [Events -> [at : {"idle", "sending", "done"}, left : SUBSET Conns]]
    /\ \A c \in Conns : Len(chan[c]) <= Cap

\* A broadcast never sends on a closed channel, which would bring the whole gateway down: every
\* channel it has still to come to is among the subscribers, although a stream may end at any
\* moment and its channel is closed outside the lock (audit_broadcaster.go:34-38, 50-57).
SendsToOpen ==
    \A e \in Events : casts[e].at = "sending" => \A c \in casts[e].left : stage[c] = "open"
=============================================================================
