----------------------------- MODULE SnapshotScan -----------------------------
(***************************************************************************)
(* What a table of transactions promises its clients, with no row groups,  *)
(* no versions and no statistics: a transaction reads what was committed   *)
(* before it began and what it wrote itself; of two transactions at work   *)
(* on one row the second fails; what it wrote is in the store at once when *)
(* it commits, and nowhere when it aborts.  A scan may leave rows out only *)
(* if none of them is one it is looking for.                               *)
(***************************************************************************)
CONSTANTS
    Txn,
    Row,
    Datum,
    Absent,         \* what a row that does not exist reads as
    Nothing         \* a scan leaves nothing out

VARIABLES
    phase,          \* idle, active, committed or aborted
    store,          \* the committed rows
    view,           \* what an active transaction reads
    wrote,          \* the rows it has written
    skip            \* the rows its scan leaves out, and the data it looks for

svars == <<phase, store, view, wrote, skip>>

Empty == [r \in Row |-> Absent]

SInit ==
    /\ phase = [t \in Txn |-> "idle"]
    /\ store = Empty
    /\ view = [t \in Txn |-> Empty]
    /\ wrote = [t \in Txn |-> {}]
    /\ skip = [t \in Txn |-> Nothing]

SBegin(t) ==
    /\ phase[t] = "idle"
    /\ phase' = [phase EXCEPT ![t] = "active"]
    /\ view' = [view EXCEPT ![t] = store]
    /\ UNCHANGED <<store, wrote, skip>>

(* Insert or update a row: the transaction has it to itself, and what it reads
   of the row is the newest there is.                                         *)
SWrite(t, r) ==
    /\ phase[t] = "active"
    /\ skip[t] = Nothing
    /\ \A u \in Txn \ {t} : r \notin wrote[u]
    /\ r \in wrote[t] \/ view[t][r] = store[r]
    /\ wrote' = [wrote EXCEPT ![t] = @ \cup {r}]
    /\ \E d \in Datum : view' = [view EXCEPT ![t][r] = d]
    /\ UNCHANGED <<phase, store, skip>>

SSkip(t, rows, want) ==
    /\ phase[t] = "active"
    /\ skip[t] = Nothing
    /\ skip' = [skip EXCEPT ![t] = [rows |-> rows, want |-> want]]
    /\ \A r \in rows : view[t][r] \notin want
    /\ UNCHANGED <<phase, store, view, wrote>>

SScanEnd(t) ==
    /\ skip[t] # Nothing
    /\ skip' = [skip EXCEPT ![t] = Nothing]
    /\ UNCHANGED <<phase, store, view, wrote>>

(* A scan is over before its transaction is. *)
SEnd(t, label) ==
    /\ phase[t] = "active"
    /\ skip[t] = Nothing
    /\ phase' = [phase EXCEPT ![t] = label]
    /\ view' = [view EXCEPT ![t] = Empty]
    /\ wrote' = [wrote EXCEPT ![t] = {}]
    /\ UNCHANGED skip

SCommit(t) ==
    /\ SEnd(t, "committed")
    /\ store' = [r \in Row |-> IF r \in wrote[t] THEN view[t][r] ELSE store[r]]

SAbort(t) ==
    /\ SEnd(t, "aborted")
    /\ UNCHANGED store

SNext ==
    \E t \in Txn :
       \/ SBegin(t)
       \/ \E r \in Row : SWrite(t, r)
       \/ \E rows \in SUBSET Row, want \in SUBSET Datum : SSkip(t, rows, want)
       \/ SScanEnd(t)
       \/ SCommit(t)
       \/ SAbort(t)

SSpec == SInit /\ [][SNext]_svars
===============================================================================
