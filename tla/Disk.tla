-------------------------------- MODULE Disk --------------------------------
(***************************************************************************)
(* What include/drive.h promises the IDE and floppy controllers, and what  *)
(* Drive is shown to implement.  A request is answered at once             *)
(* (DRIVE_RESULT_SYNC) or later (DRIVE_RESULT_ASYNC, then the callback); a *)
(* read answers with the contents at that moment; a write puts the         *)
(* caller's buffer on the disk by then, and nothing else changes a sector. *)
(* A transfer that is outstanding may already have reached any part of its *)
(* range.  Answers are counted: a request that is answered differs from    *)
(* one that is dropped.  Requests are dropped, replaced or chained only    *)
(* where the callers have the habit of it.                                 *)
(***************************************************************************)
EXTENDS Integers

CONSTANTS Drives, NumSectors, Values, Image, Idle

VARIABLES
    content,        \* of the sectors of every drive
    outstanding,    \* the request a drive has yet to answer, or Idle
    buffer,         \* the caller's buffer, with a place for every sector
    answers,        \* callbacks of the drive so far
    habits          \* what its callers do beside asking and waiting

vars == <<content, outstanding, buffer, answers, habits>>

Sectors == 0 .. NumSectors - 1
Request == {r \in [op : {"read", "write", "prefetch"}, first : Sectors, count : 1 .. NumSectors] :
               r.first + r.count <= NumSectors}

Touched(r) == r.first .. r.first + r.count - 1

\* old with the sectors in S taken from new
Patched(old, S, new) == [s \in Sectors |-> IF s \in S THEN new[s] ELSE old[s]]

\* the sectors in S move between the drive and the caller's buffer
Transfer(d, r, S) ==
    /\ content' = IF r.op = "write"
                  THEN [content EXCEPT ![d] = Patched(@, S, buffer[d])] ELSE content
    /\ buffer' = IF r.op = "read"
                 THEN [buffer EXCEPT ![d] = Patched(@, S, content[d])] ELSE buffer

\* a request that is asked before the last one is answered takes its place
MayAsk(d) == outstanding[d] # Idle => "impatient" \in habits

Serve(d, r) ==
    /\ MayAsk(d)
    /\ Transfer(d, r, Touched(r))
    /\ UNCHANGED <<outstanding, answers, habits>>

Accept(d, r) ==
    /\ MayAsk(d)
    /\ outstanding' = [outstanding EXCEPT ![d] = r]
    /\ \E S \in SUBSET Touched(r) : Transfer(d, r, S)
    /\ UNCHANGED <<answers, habits>>

\* the callback of the request that is outstanding, with next outstanding after it
Called(d, next) ==
    /\ outstanding[d] # Idle
    /\ outstanding' = [outstanding EXCEPT ![d] = next]
    /\ answers' = [answers EXCEPT ![d] = @ + 1]
    /\ UNCHANGED habits

Answer(d) ==
    /\ Called(d, Idle)
    /\ Transfer(d, outstanding[d], Touched(outstanding[d]))

\* the callback goes on with a request of its own before it returns: S is what it moves
Chain(d, r, S) ==
    /\ "chain" \in habits
    /\ outstanding[d].op = "write" /\ r.op = "write"
    /\ content' = [content EXCEPT ![d] = Patched(@, Touched(outstanding[d]) \cup S, buffer[d])]
    /\ UNCHANGED buffer

AnswerThenServe(d, r)  == Called(d, Idle) /\ Chain(d, r, Touched(r))
AnswerThenAccept(d, r) == Called(d, r) /\ \E S \in SUBSET Touched(r) : Chain(d, r, S)

Cancel(d) ==
    /\ "cancel" \in habits
    /\ outstanding' = [outstanding EXCEPT ![d] = Idle]
    /\ UNCHANGED <<content, buffer, answers, habits>>

\* the buffer is the caller's to change
Fill(d) ==
    /\ outstanding[d] # Idle => "scribble" \in habits
    /\ \E v \in Values : buffer' = [buffer EXCEPT ![d] = [s \in Sectors |-> v]]
    /\ UNCHANGED <<content, outstanding, answers, habits>>

Init ==
    /\ content = [d \in Drives |-> [s \in Sectors |-> Image]]
    /\ outstanding = [d \in Drives |-> Idle]
    /\ buffer = [d \in Drives |-> [s \in Sectors |-> Image]]
    /\ answers = [d \in Drives |-> 0]
    /\ habits \in SUBSET {"overlap", "impatient", "cancel", "chain", "scribble"}

Next ==
    \E d \in Drives :
        \/ \E r \in Request : \/ Serve(d, r) \/ Accept(d, r)
                              \/ AnswerThenServe(d, r) \/ AnswerThenAccept(d, r)
        \/ Answer(d)
        \/ Cancel(d)
        \/ Fill(d)

Spec == Init /\ [][Next]_vars
=============================================================================
