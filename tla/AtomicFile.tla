----------------------------- MODULE AtomicFile -----------------------------
(***************************************************************************)
(* What pread and pwrite on a MadFS file promise.  A write changes all its *)
(* cells and the size of the file at one instant between its call and its  *)
(* return.  A read takes the size of the file, cuts its range there, and   *)
(* at a later instant before its return takes all its cells at once.  The  *)
(* two instants of a read may differ: a file that grows in between is not  *)
(* read beyond the old size.                                               *)
(***************************************************************************)
EXTENDS Integers, FiniteSetsExt

CONSTANTS Threads, Cells, Ranges, Values, Zero

VARIABLES content,   \* content[x]: cell x of the file
          size,      \* the size of the file
          op         \* op[t]: the operation of thread t

Idle == [at |-> "none"]

Init ==
  /\ content = [x \in Cells |-> Zero]
  /\ size = 0
  /\ op = [t \in Threads |-> Idle]

BeginWrite(t, r, v) ==
  /\ op[t] = Idle
  /\ op' = [op EXCEPT ![t] = [at |-> "write", req |-> r, val |-> v]]
  /\ UNCHANGED <<content, size>>

BeginRead(t, r) ==
  /\ op[t] = Idle
  /\ op' = [op EXCEPT ![t] = [at |-> "read", req |-> r]]
  /\ UNCHANGED <<content, size>>

Write(t) ==
  LET r == op[t].req IN
  /\ op[t].at = "write"
  /\ op' = [op EXCEPT ![t] = [at |-> "done"]]
  /\ content' = [x \in Cells |-> IF r.off <= x /\ x < r.off + r.cnt
                                 THEN op[t].val ELSE content[x]]
  /\ size' = Max({size, r.off + r.cnt})

\* Zero cells at or past the end of the file.
CutAt(r, s) == IF r.off >= s THEN 0 ELSE Min({r.cnt, s - r.off})

TakeSize(t) ==
  LET r == op[t].req IN
  /\ op[t].at = "read"
  /\ op' = [op EXCEPT ![t] = IF CutAt(r, size) = 0
                             THEN [at |-> "result", cells |-> [x \in {} |-> Zero]]
                             ELSE [at |-> "cut", req |-> r, lim |-> CutAt(r, size)]]
  /\ UNCHANGED <<content, size>>

Read(t) ==
  /\ op[t].at = "cut"
  /\ op' = [op EXCEPT ![t] =
       [at |-> "result",
        cells |-> [x \in 0 .. op[t].lim - 1 |-> content[op[t].req.off + x]]]]
  /\ UNCHANGED <<content, size>>

\* The operation returns, or its process dies.
End(t) ==
  /\ op[t] # Idle
  /\ op' = [op EXCEPT ![t] = Idle]
  /\ UNCHANGED <<content, size>>

Die(S) ==
  /\ op' = [t \in Threads |-> IF t \in S THEN Idle ELSE op[t]]
  /\ UNCHANGED <<content, size>>

Next ==
  \/ \E t \in Threads :
       \/ \E r \in Ranges : BeginRead(t, r) \/ \E v \in Values : BeginWrite(t, r, v)
       \/ Write(t) \/ TakeSize(t) \/ Read(t) \/ End(t)
  \/ \E S \in SUBSET Threads : Die(S)

Spec == Init /\ [][Next]_<<content, size, op>>
=============================================================================
