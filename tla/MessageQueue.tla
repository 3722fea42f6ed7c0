---------------------------- MODULE MessageQueue ----------------------------
(***************************************************************************)
(* What Connection::receive promises its callers: the control connection   *)
(* is a queue of whole messages.  A call returns the next message, or, if  *)
(* it has a time limit, returns without one and takes nothing; it fails    *)
(* only when the peer is gone.                                             *)
(***************************************************************************)
EXTENDS Naturals, Sequences

VARIABLES
  sent,       \* messages the peer has sent
  delivered,  \* the messages returned, by number, in order
  call,       \* the call in progress: "none", "timed", "untimed" or "failed"
  peerGone    \* the connection has ended

queueVars == <<sent, delivered, call, peerGone>>

QueueInit ==
  /\ sent = 0
  /\ delivered = << >>
  /\ call = "none"
  /\ peerGone = FALSE

PeerSends ==
  /\ ~peerGone
  /\ sent' = sent + 1
  /\ UNCHANGED <<delivered, call, peerGone>>

PeerGoes ==
  /\ peerGone' = TRUE
  /\ UNCHANGED <<sent, delivered, call>>

Ask ==
  /\ call = "none"
  /\ call' \in {"timed", "untimed"}
  /\ UNCHANGED <<sent, delivered, peerGone>>

Answer ==
  /\ call \in {"timed", "untimed"}
  /\ Len(delivered) < sent
  /\ delivered' = Append(delivered, Len(delivered) + 1)
  /\ call' = "none"
  /\ UNCHANGED <<sent, peerGone>>

GiveUp ==
  /\ call = "timed"
  /\ call' = "none"
  /\ UNCHANGED <<sent, delivered, peerGone>>

Fail ==
  /\ call \in {"timed", "untimed"}
  /\ peerGone
  /\ call' = "failed"
  /\ UNCHANGED <<sent, delivered, peerGone>>

QueueNext == PeerSends \/ PeerGoes \/ Ask \/ Answer \/ GiveUp \/ Fail

QueueSpec == QueueInit /\ [][QueueNext]_queueVars

=============================================================================
