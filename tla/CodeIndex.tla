----------------------------- MODULE CodeIndex -----------------------------
(***************************************************************************)
(* The index of a repository's clone: Celery jobs that read files, compare *)
(* them with the rows of code_chunks, embed what differs and replace it.   *)
(* Several jobs may be at work at once.                                    *)
(***************************************************************************)
EXTENDS Workspaces

CONSTANTS
    Full,         \* the job of create_repository, for all files
    Indexable,    \* the files that the chunker does not skip
    MaxRetries    \* max_retries of the Celery task

ASSUME CodeIndexAssumption ==
    Full \notin Runs /\ Indexable \subseteq Files /\ MaxRetries \in Nat

Jobs == Tasks \cup {Full}     \* one incremental job for each task

VARIABLES
    index,     \* by file: the content its rows were made from
    job,       \* by job: its message and its worker's local state
    raced      \* files of two jobs, one of which was done in the midst of the other (ghost)

indexVars == <<index, job, raced>>

Nothing == [f \in Files |-> Absent]
InJob == {"queued", "read", "compared"}
NewJob == [pc |-> "none", files |-> {}, drafts |-> Nothing, replace |-> {},
           overtaken |-> {}, retries |-> 0]

IndexTypeOK ==
    /\ index \in [Files -> Contents]
    /\ \A j \in Jobs :
          /\ job[j].pc \in InJob \cup {"none", "done", "given up"}
          /\ job[j].replace \subseteq job[j].files /\ job[j].files \subseteq Files
          /\ job[j].overtaken \subseteq Files /\ job[j].drafts \in [Files -> Contents]
          /\ job[j].retries \in 0..MaxRetries
    /\ raced \subseteq Files

IndexInit ==
    /\ index = Nothing
    /\ job = [[j \in Jobs |-> NewJob] EXCEPT ![Full].pc = "queued", ![Full].files = Files]
    /\ raced = {}

\* A file that is gone or that the chunker skips has no chunks.
Draft(f) == IF f \in Indexable THEN tree[Clone][f] ELSE Absent

JobReads(j) ==
    /\ job[j].pc = "queued"
    /\ job' = [job EXCEPT ![j].pc = "read",
                 ![j].drafts = [f \in Files |-> IF f \in job[j].files THEN Draft(f) ELSE Absent]]
    /\ UNCHANGED <<workspaceVars, index, raced>>

Differing(j) == {f \in job[j].files : job[j].drafts[f] # index[f]}

JobCompares(j) ==
    /\ job[j].pc = "read"
    /\ job' = [job EXCEPT ![j].pc = "compared", ![j].replace = Differing(j)]
    /\ UNCHANGED <<workspaceVars, index, raced>>

\* The embeddings have come; one transaction deletes and inserts.
JobWrites(j) ==
    /\ job[j].pc = "compared"
    /\ index' = [f \in Files |-> IF f \in job[j].replace THEN job[j].drafts[f] ELSE index[f]]
    /\ raced' = raced \cup job[j].overtaken
    /\ job' = [k \in Jobs |->
         IF k = j THEN [NewJob EXCEPT !.pc = "done"]
         ELSE IF job[k].pc \in {"read", "compared"}
              THEN [job[k] EXCEPT !.overtaken = @ \cup (job[j].files \cap job[k].files)]
              ELSE job[k]]
    /\ UNCHANGED workspaceVars

\* The embedding service or the database fails: Celery tries again from the start.
JobFails(j) ==
    /\ job[j].pc \in {"read", "compared"} /\ Lose
    /\ job' = [job EXCEPT ![j] =
         IF @.retries < MaxRetries
         THEN [NewJob EXCEPT !.pc = "queued", !.files = job[j].files, !.retries = job[j].retries + 1]
         ELSE [NewJob EXCEPT !.pc = "given up"]]
    /\ UNCHANGED <<tree, owner, index, raced>>

\* A lost worker's message is delivered again.
JobLost(j) ==
    /\ job[j].pc \in {"read", "compared"} /\ Lose
    /\ job' = [job EXCEPT ![j] =
         [NewJob EXCEPT !.pc = "queued", !.files = job[j].files, !.retries = job[j].retries]]
    /\ UNCHANGED <<tree, owner, index, raced>>
=============================================================================
