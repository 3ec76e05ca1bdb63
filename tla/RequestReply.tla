---------------------------- MODULE RequestReply ----------------------------
(***************************************************************************)
(* What the callers of DataTransport::sendCommand rely on (the card        *)
(* commands, the adapters, the sessions above them): a call ends, and what *)
(* it returns is of the answer to the command it sent, or it reports an    *)
(* error.  A transport that makes a new connection for every command keeps *)
(* this always.  One that keeps its connection keeps it until something    *)
(* was left unanswered on it or came unasked for; from then on an answer   *)
(* may be of any command sent so far.                                      *)
(*                                                                         *)
(* Commands are numbered in the order in which they are sent.              *)
(***************************************************************************)
EXTENDS Naturals

CONSTANT MaxCalls    \* bound: the number of commands

VARIABLES
  fresh,     \* every command has a connection of its own
  pending,   \* the command of the call under way, 0 when there is none
  sent,      \* the number of commands so far
  doubt,     \* something was left on the kept connection
  outcome    \* of the last call: the command whose answer it returned, or one of

Error == "error"         \* an exception, or no bytes
Unasked == "unasked"     \* what the device sent of its own accord
Outcomes == [kind : {"answer"}, of : 1 .. MaxCalls]
              \cup [kind : {Error, Unasked, "none"}, of : {0}]

rvars == <<fresh, pending, sent, doubt, outcome>>

AnswerOf(c) == [kind |-> "answer", of |-> c]
Without(k) == [kind |-> k, of |-> 0]

RInit ==
  /\ fresh \in BOOLEAN
  /\ pending = 0 /\ sent = 0 /\ doubt = FALSE /\ outcome = Without("none")

Send ==
  /\ pending = 0 /\ sent < MaxCalls
  /\ sent' = sent + 1 /\ pending' = sent + 1
  /\ outcome' = Without("none")
  /\ UNCHANGED <<fresh, doubt>>

Answer ==
  /\ pending # 0
  /\ \/ outcome' = AnswerOf(pending)
     \/ /\ doubt /\ ~fresh
        /\ outcome' \in {AnswerOf(c) : c \in 1 .. sent} \cup {Without(Unasked)}
  /\ pending' = 0
  /\ UNCHANGED <<fresh, sent, doubt>>

Fail ==
  /\ pending # 0
  /\ outcome' = Without(Error)
  /\ pending' = 0
  /\ doubt' \in {doubt, TRUE}
  /\ UNCHANGED <<fresh, sent>>

\* The device or the network puts something on the line nobody waits for.
Disturb ==
  /\ doubt' = TRUE
  /\ UNCHANGED <<fresh, pending, sent, outcome>>

\* A new connection is made: what was left on the old one is gone.
Renew ==
  /\ pending = 0
  /\ doubt' = FALSE
  /\ UNCHANGED <<fresh, pending, sent, outcome>>

RNext == Send \/ Answer \/ Fail \/ Disturb \/ Renew

RSpec == RInit /\ [][RNext]_rvars /\ WF_rvars(Answer \/ Fail)
=============================================================================
