------------------------------- MODULE ShmTest -------------------------------
(***************************************************************************)
(* The first shared-memory test (shared_mem/source/shm_test_1.c): a parent *)
(* creates a segment, prepares the semaphore in it, writes a text and      *)
(* posts; the child it forked polls for the segment, waits and prints.     *)
(* The parent does not wait for the child, so the next run of the program  *)
(* may begin while children of earlier ones still poll: a child opens      *)
(* whichever segment bears the name.  Segments are named by the run that   *)
(* created them.  The second a child sleeps orders nothing here.           *)
(***************************************************************************)
EXTENDS Naturals

CONSTANT MaxRuns    \* bound on how often the program is run
Runs == 1..MaxRuns
NoRun == 0

VARIABLES
    shm_name,       \* the segment SHM_NAME leads to
    segment,        \* of each run: whether it has its size, sem (raw before sem_init), buf
    parent,         \* of each run: the call that comes next
    reader,         \* of each run: the place of the child
    shmem_fd        \* of each run: the segment the child opened

vars == <<shm_name, segment, parent, reader, shmem_fd>>

-----------------------------------------------------------------------------
(* The parent.  One run ends before the user starts the next.              *)

Start(r) ==
    /\ parent[r] = "none" /\ \A q \in 1..(r - 1) : parent[q] = "over"
    /\ shm_name' = NoRun
    /\ parent' = [parent EXCEPT ![r] = "open"]
    /\ reader' = [reader EXCEPT ![r] = "open"]
    /\ UNCHANGED <<segment, shmem_fd>>

Call(r, from, to) ==
    /\ parent[r] = from
    /\ parent' = [parent EXCEPT ![r] = to]
    /\ UNCHANGED <<reader, shmem_fd>>

ShmOpen(r) ==
    /\ Call(r, "open", "truncate")
    /\ shm_name' = r
    /\ UNCHANGED segment

Ftruncate(r) ==
    /\ Call(r, "truncate", "sem_init")
    /\ segment' = [segment EXCEPT ![r].sized = TRUE]
    /\ UNCHANGED shm_name

SemInit(r) ==
    /\ Call(r, "sem_init", "strcpy")
    /\ segment' = [segment EXCEPT ![r].raw = FALSE, ![r].sem = 0]
    /\ UNCHANGED shm_name

Strcpy(r) ==
    /\ Call(r, "strcpy", "sem_post")
    /\ segment' = [segment EXCEPT ![r].buf = "text"]
    /\ UNCHANGED shm_name

SemPost(r) ==
    /\ Call(r, "sem_post", "over")
    /\ segment' = [segment EXCEPT ![r].sem = @ + 1]
    /\ UNCHANGED shm_name

ParentStep(r) == ShmOpen(r) \/ Ftruncate(r) \/ SemInit(r) \/ Strcpy(r) \/ SemPost(r)

-----------------------------------------------------------------------------
(* The child.                                                              *)

ChildOpen(r) ==
    /\ reader[r] = "open" /\ shm_name # NoRun
    /\ shmem_fd' = [shmem_fd EXCEPT ![r] = shm_name]
    /\ reader' = [reader EXCEPT ![r] = "opened"]
    /\ UNCHANGED <<shm_name, segment, parent>>

(* The first access.  A segment without size has no page: SIGBUS.  Who     *)
(* begins to wait before sem_init may be forgotten by it.                  *)
Touch(r) ==
    /\ reader[r] = "opened"
    /\ LET s == segment[shmem_fd[r]] IN
       \E place \in IF ~s.sized THEN {"killed"}
                    ELSE IF s.raw THEN {"waits", "forgotten"} ELSE {"waits"} :
           reader' = [reader EXCEPT ![r] = place]
    /\ UNCHANGED <<shm_name, segment, parent, shmem_fd>>

(* Mutant: the child waits for one post more than there will be.           *)
SemWaitForTwo(r) ==
    /\ reader[r] = "waits"
    /\ LET s == shmem_fd[r] IN
       /\ ~segment[s].raw /\ segment[s].sem > 1
       /\ segment' = [segment EXCEPT ![s].sem = @ - 2]
       /\ reader' = [reader EXCEPT ![r] =
                         IF segment[s].buf = "text" THEN "printed" ELSE "misprinted"]
    /\ UNCHANGED <<shm_name, parent, shmem_fd>>

SemWait(r) ==
    /\ reader[r] = "waits"
    /\ LET s == shmem_fd[r] IN
       /\ ~segment[s].raw /\ segment[s].sem > 0
       /\ segment' = [segment EXCEPT ![s].sem = @ - 1]
       /\ reader' = [reader EXCEPT ![r] =
                         IF segment[s].buf = "text" THEN "printed" ELSE "misprinted"]
    /\ UNCHANGED <<shm_name, parent, shmem_fd>>

ChildStep(r) == ChildOpen(r) \/ Touch(r) \/ SemWait(r)

-----------------------------------------------------------------------------
Init ==
    /\ shm_name = NoRun
    /\ segment = [r \in Runs |-> [sized |-> FALSE, raw |-> TRUE, sem |-> 0, buf |-> ""]]
    /\ parent = [r \in Runs |-> "none"]
    /\ reader = [r \in Runs |-> "none"]
    /\ shmem_fd = [r \in Runs |-> NoRun]

Next == \E r \in Runs : Start(r) \/ ParentStep(r) \/ ChildStep(r)

Spec == Init /\ [][Next]_vars

Fairness == \A r \in Runs : WF_vars(ParentStep(r)) /\ WF_vars(ChildStep(r))

-----------------------------------------------------------------------------
On(s) == {r \in Runs : shmem_fd[r] = s}

(* Whichever segments the children opened, and however early, none prints  *)
(* half a text, no two print that of one segment, and the post of a        *)
(* segment is there or was used by a child that printed.                   *)
PostUsedOnce(s) ==
    /\ \A r \in On(s) : reader[r] # "misprinted"
    /\ \A r, q \in On(s) : reader[r] = "printed" /\ reader[q] = "printed" => r = q
    /\ parent[s] = "over" => \/ ~segment[s].raw /\ segment[s].sem = 1
                             \/ \E r \in On(s) : reader[r] = "printed"

(* If children wait on the semaphore of a segment, one of them prints the  *)
(* text, and the whole of it; with two on one segment the other waits for  *)
(* ever, as the one post is used up.                                       *)
OneChildPrints ==
    /\ \A s \in Runs :
          (\E r \in On(s) : reader[r] = "waits")
              ~> \E r \in On(s) : reader[r] = "printed"
    /\ [](\A s \in Runs : PostUsedOnce(s))
=============================================================================
