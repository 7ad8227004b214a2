------------------------------- MODULE Mailbox --------------------------------
(***************************************************************************)
(* What a signaling session promises the bot that uses it: the events of   *)
(* one opcode are handed out in the order in which the hub sent them, each *)
(* once and none skipped, whatever requests, polls and waits the session   *)
(* was in when they arrived.  Opcodes are independent of one another.      *)
(* Only where an ACK may have to wait for room in the socket (lossy) can a *)
(* pending event be lost.                                                  *)
(***************************************************************************)
EXTENDS Naturals, Sequences

CONSTANT Ops

VARIABLES
  lossy,     (* whether events may be lost                                 *)
  sent,      (* how many events were sent; each is known by its number     *)
  pending,   (* per opcode, the events sent and not handed out yet         *)
  taken      (* per opcode, the events handed out so far                   *)

Init ==
  /\ lossy \in BOOLEAN
  /\ sent = 0
  /\ pending = [op \in Ops |-> <<>>]
  /\ taken = [op \in Ops |-> <<>>]

Publish(op) ==
  /\ sent' = sent + 1
  /\ UNCHANGED <<lossy, taken>>
  /\ pending' = [pending EXCEPT ![op] = Append(@, sent')]

Take(op, n) ==
  /\ UNCHANGED <<lossy, sent>>
  /\ taken' = [taken EXCEPT ![op] = @ \o SubSeq(pending[op], 1, n)]
  /\ pending' = [pending EXCEPT ![op] = SubSeq(@, n + 1, Len(@))]

Lose(op, n) ==
  /\ lossy
  /\ UNCHANGED <<lossy, sent, taken>>
  /\ pending' = [pending EXCEPT ![op] = SubSeq(@, 1, n - 1) \o SubSeq(@, n + 1, Len(@))]

Next ==
  \E op \in Ops :
    \/ Publish(op)
    \/ \E n \in 1..Len(pending[op]) : Take(op, n) \/ Lose(op, n)

Spec == Init /\ [][Next]_<<lossy, sent, pending, taken>>

=============================================================================
