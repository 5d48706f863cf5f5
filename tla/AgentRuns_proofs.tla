--------------------------- MODULE AgentRuns_proofs ---------------------------
(* What AgentRuns promises, for any tasks, steps, files, checks, profiles,     *)
(* retries and losses, and however the runs and the jobs overlap.              *)
EXTENDS AgentRuns, TLAPS

\* Types of whole records, which say more than TypeOK needs.
Result == [check : UNION {Checks[f] : f \in Files}, result : CommandResults]
Run == [pc : AtWork \cup {"idle", "failed", "killed", "done"},
        adapter : {"none", "model", "mock"},
        round : 0..MaxRounds, calls : 0..(MaxCalls + MaxMarkers),
        changed : SUBSET Files, edited : SUBSET Files,
        results : SUBSET Result, attempt : 0..MaxRepairs,
        limited : BOOLEAN, stage : 1..3]
Job == [pc : InJob \cup {"none", "done", "given up"},
        files : SUBSET Files, drafts : [Files -> Contents],
        replace : SUBSET Files, overtaken : SUBSET Files, retries : 0..MaxRetries]

\* The tools that a call may outlive its caller with.
Late == {"write", "rename"} \cup ((Trusted \cap Offered) \ Local)

Typed ==
    /\ WorkspacesTypeOK
    /\ mode \in {"local", "hybrid", "mcp"}
    /\ routes \in [Runs -> SUBSET Accepted(Offered)]
    /\ run \in [Runs -> Run]
    /\ inflight \subseteq Runs \X Late
    /\ index \in [Files -> Contents]
    /\ job \in [Jobs -> Job]
    /\ raced \subseteq Files

\* The rounds are counted from 0 whenever the model begins anew, and only steps
\* are verified.
CountedRun(r, x) ==
    /\ x.pc = "model" => x.round < MaxRounds
    /\ x.pc \in {"legacy", "mock", "returned"} \cup Verifying => x.round = 0
    /\ x.pc \in AtWork => x.adapter # "none"
    /\ x.pc \in Verifying => r \in Steps
Counted == \A r \in Runs : CountedRun(r, run[r])

\* A job's plan is a part of its files.
Planned == \A j \in Jobs : job[j].replace \subseteq job[j].files

\* No own tool and no marker of a task has edited the clone without a mention.
Reports(r, x) == r \in Tasks => x.edited \subseteq x.changed
NothingUnreported == \A r \in Runs : Reports(r, run[r])

\* Results belong to the verification in progress, or to the one that passed.
Fresh ==
    /\ \A r \in Runs : run[r].pc \in AtWork \ Verifying => run[r].results = {}
    /\ \A s \in Steps : run[s].pc \in Verifying /\ OnlyDocuments(s) => run[s].results = {}

\* A task's job is about what the task reported, and comes after it.
JobOfTask ==
    \A t \in Tasks :
        /\ job[t].pc # "none" => At(t, "done")
        /\ job[t].pc \in InJob => job[t].files = run[t].changed

Holding(k, f) == job[k].pc \in {"read", "compared"} /\ f \in job[k].files

\* A job holds what the clone holds of a file: the job of its last editor, and
\* after that job every other that was not at work meanwhile.
DraftsAgree ==
    \A t \in Tasks, f \in Files, k \in Jobs :
        /\ owner[f] = t /\ f \in run[t].changed /\ Holding(k, f)
        /\ k = t \/ (job[t].pc = "done" /\ f \notin job[k].overtaken)
        => job[k].drafts[f] = Draft(f)

\* What a job decided to leave alone is right until another one writes.
ComparedAgrees ==
    \A k \in Jobs, f \in Files :
        /\ job[k].pc = "compared" /\ f \in job[k].files
        /\ f \notin job[k].replace \cup job[k].overtaken
        => index[f] = job[k].drafts[f]

\* IndexAgrees, of the files that a task reports.
ReportedAgrees ==
    \A f \in Files \ raced : \A t \in Tasks :
        owner[f] = t /\ At(t, "done") /\ f \in run[t].changed /\ job[t].pc = "done"
        => index[f] = Draft(f)

IndexInv == JobOfTask /\ DraftsAgree /\ ComparedAgrees /\ ReportedAgrees
Inv == Typed /\ Counted /\ Planned /\ NothingUnreported /\ Fresh /\ DoneIsVerified /\ IndexInv

-----------------------------------------------------------------------------
(* Operators *)
Dirs == [Files -> Contents]

\* A directory that follows another one has lost no content.
Keeps(before, after) ==
    \A f \in Files : before[f] # Absent /\ after[f] = Absent =>
        \E g \in Files \ {f} : after[g] = before[f]

\* A new run and a new job are records of their kind.
LEMMA NewTyped ==
    /\ NewRun \in Run
    /\ NewJob \in Job
    /\ Clean \in Dirs /\ \A before \in Dirs : Keeps(before, Clean)
    /\ Nothing \in Dirs
<1>1. NewRun \in Run
  BY AgentToolsAssumption DEF NewRun, Run
<1>2. Nothing \in Dirs
  BY DEF Nothing, Dirs, Contents
<1>3. NewJob \in Job
  BY <1>2, CodeIndexAssumption DEF NewJob, Job, Dirs
<1>4. Clean \in Dirs /\ \A f \in Files : Clean[f] # Absent
  BY WorkspacesAssumption DEF Clean, Dirs, Contents
<1> QED
  BY <1>1, <1>2, <1>3, <1>4 DEF Keeps

\* After a call's answer the run goes on with the next call or the next round, or
\* is an exception.
LEMMA AnsweredTyped ==
    ASSUME NEW s \in Run
    PROVE  /\ Answered(s) \in Run
           /\ Answered(s).pc \in {"calls", "model", "failed"}
           /\ Answered(s).pc = "model" => Answered(s).round < MaxRounds
           /\ Answered(s).pc \in {"calls", "model"} =>
                Answered(s).adapter = s.adapter /\ Answered(s).results = s.results
           /\ \/ Answered(s).edited = s.edited /\ Answered(s).changed = s.changed
              \/ Answered(s).edited = {}
           /\ Answered(s).pc # "calls" \/ Answered(s).calls # s.calls
<1>0. MaxRounds \in Nat /\ MaxCalls \in Nat /\ MaxMarkers \in Nat
  BY AgentToolsAssumption
<1>1. CASE s.calls > 1
  <2>1. Answered(s) = [s EXCEPT !.pc = "calls", !.calls = s.calls - 1]
    BY <1>1 DEF Answered
  <2>2. s.calls - 1 \in 0..(MaxCalls + MaxMarkers)
    BY <1>0, <1>1 DEF Run
  <2>3. /\ Answered(s).pc = "calls" /\ Answered(s).calls = s.calls - 1
        /\ Answered(s).adapter = s.adapter /\ Answered(s).results = s.results
        /\ Answered(s).edited = s.edited /\ Answered(s).changed = s.changed
    BY <2>1 DEF Run
  <2>4. Answered(s) \in Run
    BY <2>1, <2>2 DEF Run, AtWork, Working
  <2>5. s.calls \in Nat /\ s.calls - 1 # s.calls
    BY <1>0 DEF Run
  <2> QED
    BY <2>3, <2>4, <2>5
<1>2. CASE ~(s.calls > 1) /\ s.round < MaxRounds
  <2>1. Answered(s) = [s EXCEPT !.pc = "model", !.calls = 0]
    BY <1>2 DEF Answered
  <2>2. 0 \in 0..(MaxCalls + MaxMarkers)
    BY <1>0
  <2> QED
    BY <1>2, <2>1, <2>2 DEF Run, AtWork, Working, Verifying
<1>3. CASE ~(s.calls > 1) /\ ~(s.round < MaxRounds)
  <2>1. Answered(s) = [NewRun EXCEPT !.pc = "failed"]
    BY <1>3 DEF Answered
  <2> QED
    BY <2>1, NewTyped DEF Run, NewRun
<1> QED
  BY <1>1, <1>2, <1>3

\* What a tool makes of a directory is a directory; what it changes it reports,
\* and it loses nothing, unless it deletes.
LEMMA AfterIsReported ==
    ASSUME NEW dir \in Dirs, NEW t, NEW r \in Runs,
           NEW f \in Files, NEW g \in Files, Applicable(dir, t, f)
    PROVE  /\ After(dir, t, f, g, r) \in Dirs /\ Reported(dir, t, f, g) \subseteq Files
           /\ Changed(dir, After(dir, t, f, g, r)) \subseteq Reported(dir, t, f, g)
           /\ t # "delete" => Keeps(dir, After(dir, t, f, g, r))
<1> DEFINE after == After(dir, t, f, g, r)
           files == Reported(dir, t, f, g)
<1>1. r \in Contents /\ r # Absent /\ Absent \in Contents
  BY WorkspacesAssumption DEF Contents
<1>2. CASE t = "write"
  <2>1. after = [dir EXCEPT ![f] = r] /\ files = {f}
    BY <1>2 DEF After, Reported
  <2> QED
    BY <1>1, <2>1 DEF Dirs, Changed, Keeps
<1>3. CASE t = "rename" /\ f # g
  <2>1. after = [dir EXCEPT ![g] = dir[f], ![f] = Absent] /\ files = {f, g}
    BY <1>3 DEF After, Reported
  <2>2. dir[f] # Absent
    BY <1>3 DEF Applicable
  <2>3. after \in Dirs
    BY <2>1 DEF Dirs, Contents
  <2>4. after[g] = dir[f] /\ after[f] = Absent /\ \A h \in Files \ {f, g} : after[h] = dir[h]
    BY <1>3, <2>1 DEF Dirs
  <2> QED
    BY <1>3, <2>1, <2>2, <2>3, <2>4 DEF Changed, Keeps
<1>4. CASE t = "delete"
  <2>1. after = [dir EXCEPT ![f] = Absent] /\ files = {f}
    BY <1>4 DEF After, Reported
  <2> QED
    BY <1>1, <1>4, <2>1 DEF Dirs, Changed
<1>5. CASE t \notin {"write", "delete"} /\ ~(t = "rename" /\ f # g)
  <2>1. after = dir
    BY <1>5 DEF After
  <2>2. files \subseteq Files
    BY <1>5 DEF Reported, Changed
  <2> QED
    BY <2>1, <2>2 DEF Changed, Keeps
<1> QED
  BY <1>2, <1>3, <1>4, <1>5

\* The same of what the workspace's own tools may do.
LEMMA OutcomeIsReported ==
    ASSUME NEW dir \in Dirs, NEW t \in Local \ {"delete"}, NEW r \in Runs,
           NEW o \in Outcomes(dir, t, r)
    PROVE  /\ o.after \in Dirs /\ o.files \subseteq Files
           /\ Changed(dir, o.after) \subseteq o.files
           /\ Keeps(dir, o.after)
<1>1. PICK p \in Files \X Files : Applicable(dir, t, p[1]) /\ o = Outcome(dir, t, p[1], p[2], r)
  BY DEF Outcomes, OwnOutcomes
<1>2. /\ o.after = After(dir, t, p[1], p[2], r) /\ o.files = Reported(dir, t, p[1], p[2])
      /\ p[1] \in Files /\ p[2] \in Files
  BY <1>1 DEF Outcome
<1>3. t # "delete"
  OBVIOUS
<1> DEFINE f == p[1]
           g == p[2]
<1>4. f \in Files /\ g \in Files /\ Applicable(dir, t, f)
  BY <1>1, <1>2
<1>5. o.after = After(dir, t, f, g, r) /\ o.files = Reported(dir, t, f, g)
  BY <1>2
<1> HIDE DEF f, g
<1>6. /\ After(dir, t, f, g, r) \in Dirs /\ Reported(dir, t, f, g) \subseteq Files
      /\ Changed(dir, After(dir, t, f, g, r)) \subseteq Reported(dir, t, f, g)
      /\ Keeps(dir, After(dir, t, f, g, r))
  BY <1>3, <1>4, AfterIsReported
<1> QED
  BY <1>5, <1>6

\* A tool of the server's own leaves a directory, and reports files.
LEMMA RemoteOutcomeTyped ==
    ASSUME NEW dir \in Dirs, NEW t, t \notin Local, NEW r \in Runs,
           NEW o \in Outcomes(dir, t, r)
    PROVE  o.after \in Dirs /\ o.files \subseteq Files
<1>1. PICK u \in {"write", "rename", "delete"} : \E o0 \in OwnOutcomes(dir, u, r) :
        o \in {o0, [o0 EXCEPT !.files = {}]}
  BY DEF Outcomes, RemoteOutcomes
<1>2. PICK p \in Files \X Files :
        /\ Applicable(dir, u, p[1])
        /\ LET o0 == Outcome(dir, u, p[1], p[2], r) IN o \in {o0, [o0 EXCEPT !.files = {}]}
  BY <1>1 DEF OwnOutcomes
<1>3. /\ p[1] \in Files /\ p[2] \in Files
      /\ o.after = After(dir, u, p[1], p[2], r)
      /\ o.files \in {Reported(dir, u, p[1], p[2]), {}}
  BY <1>2 DEF Outcome
<1> DEFINE f == p[1]
           g == p[2]
<1>4. f \in Files /\ g \in Files /\ Applicable(dir, u, f)
  BY <1>2, <1>3
<1>5. o.after = After(dir, u, f, g, r) /\ o.files \in {Reported(dir, u, f, g), {}}
  BY <1>3
<1> HIDE DEF f, g
<1>6. After(dir, u, f, g, r) \in Dirs /\ Reported(dir, u, f, g) \subseteq Files
  BY <1>4, AfterIsReported
<1> QED
  BY <1>5, <1>6

\* An agent's tool is an own one that does not delete, or a remote one that its
\* process discovered and that the operator has trusted: nothing grants the own
\* deletion, and discovery refuses what is neither allowed nor harmless by its name.
LEMMA GrantedKeeps ==
    ASSUME Typed, NEW r \in Runs, NEW t \in Granted(r)
    PROVE  \/ t \in Local \ {"delete"}
           \/ t \notin Local /\ t \in Trusted /\ t \in Offered /\ t \in routes[r]
<1>1. t \in Listed(r) /\ t \notin HighRisk /\ (t \in Profile \/ (t \notin Local /\ t \in Dynamic))
  BY DEF Granted
<1>2. routes[r] \subseteq Accepted(Offered)
  BY DEF Typed
<1>3. Profile \subseteq Local
  BY AgentToolsAssumption DEF Local, FileTools, Commands
<1> QED
  BY <1>1, <1>2, <1>3 DEF HighRisk, Listed, Accepted, Trusted

-----------------------------------------------------------------------------
(* What one step does to the directories *)

\* A trusted remote tool is called by a run that discovered it, or makes late
\* what it was called for.
TrustedDoes ==
    \/ \E r \in Runs : run'[r] # run[r] /\ routes[r] \cap Trusted # {}
    \/ \E x \in inflight \ inflight' : x[2] \in Trusted

Edited ==
    \/ UNCHANGED <<tree, owner>>
    \/ \E x \in Runs \cup {Nobody}, p \in Places, after \in Dirs :
          /\ Edits(x, p, after)
          /\ Keeps(tree[p], after) \/ (p = Clone /\ TrustedDoes)
          /\ p \in Steps => run[p].pc \in {"idle", "legacy", "mock"}
          /\ x \in Runs => run[x].pc \in AtWork

\* What a call of the loop does to the clone.
LEMMA CallEdits ==
    ASSUME Typed, NEW r \in Runs, run[r].pc = "calls", NEW t \in Granted(r),
           NEW o \in Outcomes(tree[Clone], t, r), Edits(r, Clone, o.after),
           NEW x \in Run, x.calls = run[r].calls, run' = [run EXCEPT ![r] = Answered(x)]
    PROVE  Edited
<1>0. tree[Clone] \in Dirs /\ Clone \in Places \ Steps /\ run[r].pc \in AtWork
  BY WorkspacesAssumption
     DEF Typed, WorkspacesTypeOK, Places, Dirs, AtWork, Working
<1>1. CASE t \in Local \ {"delete"}
  BY <1>0, <1>1, OutcomeIsReported DEF Edited
<1>2. CASE t \notin Local /\ t \in Trusted /\ t \in routes[r]
  <2>1. o.after \in Dirs
    BY <1>0, <1>2, RemoteOutcomeTyped
  <2>2. run'[r] = Answered(x)
    BY DEF Typed
  <2>3. run'[r] # run[r]
    BY <2>2, AnsweredTyped
  <2>4. TrustedDoes
    BY <1>2, <2>3 DEF TrustedDoes
  <2> QED
    BY <1>0, <2>1, <2>4 DEF Edited
<1> QED
  BY <1>1, <1>2, GrantedKeeps

\* Runs write into the clone, or into their own directory before it is verified;
\* git and the MCP server write in nobody's name.
LEMMA StepEdits == Typed /\ [Next]_allVars => Edited
<1> SUFFICES ASSUME Typed, Next PROVE Edited
  BY DEF Edited, allVars, workspaceVars
<1>0. /\ \A p \in Places : tree[p] \in Dirs
      /\ Clone \in Places /\ Clone \notin Steps
      /\ \A r \in Runs : PathOf(r) \in Places /\ (PathOf(r) \in Steps => PathOf(r) = r)
  BY WorkspacesAssumption DEF Typed, WorkspacesTypeOK, Places, PathOf, Dirs
<1>1. ASSUME NEW r \in Runs, Begin(r) PROVE Edited
  <2>1. Edits(Nobody, PathOf(r), Clean) /\ run[r].pc = "idle"
    BY <1>1 DEF Begin, At
  <2> QED
    BY <1>0, <2>1, NewTyped, WorkspacesAssumption DEF Edited
<1>2. ASSUME NEW r \in Runs, CallSucceeds(r) PROVE Edited
  <2>1. PICK t \in Granted(r) : \E o \in Outcomes(tree[Clone], t, r) :
          /\ Edits(r, Clone, o.after)
          /\ run' = [run EXCEPT ![r] =
               Answered([run[r] EXCEPT
                 !.changed = @ \cup o.files,
                 !.edited = @ \cup (IF t \in Local THEN EditedBy(r, o.after) ELSE {})])]
    BY <1>2 DEF CallSucceeds
  <2>2. PICK o \in Outcomes(tree[Clone], t, r) :
          /\ Edits(r, Clone, o.after)
          /\ run' = [run EXCEPT ![r] =
               Answered([run[r] EXCEPT
                 !.changed = @ \cup o.files,
                 !.edited = @ \cup (IF t \in Local THEN EditedBy(r, o.after) ELSE {})])]
    BY <2>1
  <2> DEFINE edits == IF t \in Local THEN EditedBy(r, o.after) ELSE {}
             x == [run[r] EXCEPT !.changed = run[r].changed \cup o.files,
                                 !.edited = run[r].edited \cup edits]
  <2>3. o.files \subseteq Files
    BY <1>0, GrantedKeeps, OutcomeIsReported, RemoteOutcomeTyped
  <2>4. edits \subseteq Files
    BY DEF EditedBy, Changed
  <2>5. run[r] \in Run /\ run[r].pc = "calls"
    BY <1>2 DEF CallSucceeds, At, Typed
  <2>6. x \in Run /\ x.calls = run[r].calls
    <3> HIDE DEF edits
    <3> QED
      BY <2>3, <2>4, <2>5 DEF Run
  <2>7. run' = [run EXCEPT ![r] = Answered(x)]
    BY <2>2
  <2> HIDE DEF x
  <2> QED
    BY <2>2, <2>5, <2>6, <2>7, CallEdits
<1>3. ASSUME NEW r \in Runs, CallGarbled(r) PROVE Edited
  <2>1. PICK t \in Granted(r) : \E o \in Outcomes(tree[Clone], t, r) :
          Edits(r, Clone, o.after) /\ run' = [run EXCEPT ![r] = Answered(run[r])]
    BY <1>3 DEF CallGarbled, Editing
  <2>2. PICK o \in Outcomes(tree[Clone], t, r) :
          Edits(r, Clone, o.after) /\ run' = [run EXCEPT ![r] = Answered(run[r])]
    BY <2>1
  <2>3. run[r] \in Run /\ run[r].pc = "calls"
    BY <1>3 DEF CallGarbled, At, Typed
  <2> QED
    BY <2>2, <2>3, CallEdits
<1>4. ASSUME NEW r \in Runs, NEW t \in Names, ServerEdits(r, t) PROVE Edited
  <2>1. PICK o \in Outcomes(tree[Clone], t, r) : Edits(Nobody, Clone, o.after)
    BY <1>4 DEF ServerEdits
  <2>2. <<r, t>> \in inflight \ inflight' /\ t \in Late
    BY <1>4 DEF ServerEdits, Typed
  <2>3. CASE t \in Local
    <3>1. t \in Local \ {"delete"}
      BY <2>2, <2>3 DEF Late
    <3> QED
      BY <1>0, <2>1, <3>1, OutcomeIsReported, WorkspacesAssumption DEF Edited
  <2>4. CASE t \notin Local
    <3>1. t \in Trusted
      BY <2>2, <2>4 DEF Late, Local, FileTools
    <3>2. TrustedDoes
      BY <2>2, <3>1 DEF TrustedDoes
    <3>3. o.after \in Dirs
      BY <1>0, <2>4, RemoteOutcomeTyped
    <3> QED
      BY <1>0, <2>1, <3>2, <3>3, WorkspacesAssumption DEF Edited
  <2> QED
    BY <2>3, <2>4
<1>5. ASSUME NEW r \in Runs, LegacySucceeds(r) PROVE Edited
  <2>a. PICK k \in {i \in run[r].stage..3 : Allows(Stages[i])} :
          \E o \in Outcomes(tree[PathOf(r)], Stages[k], r) : Edits(r, PathOf(r), o.after)
    BY <1>5 DEF LegacySucceeds
  <2>1. PICK o \in Outcomes(tree[PathOf(r)], Stages[k], r) : Edits(r, PathOf(r), o.after)
    BY <2>a
  <2>2. Stages[k] \in Local \ {"delete"}
    <3>1. k \in 1..3
      BY <2>a DEF Typed, Run
    <3> QED
      BY <2>a, <3>1 DEF Stages, Allows, HighRisk, Local, FileTools
  <2>3. run[r].pc \in AtWork /\ run[r].pc = "legacy"
    BY <1>5 DEF LegacySucceeds, At, AtWork, Working
  <2> QED
    BY <1>0, <2>1, <2>2, <2>3, OutcomeIsReported DEF Edited
<1>6. ASSUME NEW r \in Runs, MockRuns(r) PROVE Edited
  <2>1. PICK o \in Outcomes(tree[PathOf(r)], "write", r) : Edits(r, PathOf(r), o.after)
    BY <1>6 DEF MockRuns
  <2>2. run[r].pc \in AtWork /\ run[r].pc = "mock" /\ "write" \in Local \ {"delete"}
    BY <1>6 DEF MockRuns, At, AtWork, Working, Local, FileTools
  <2> QED
    BY <1>0, <2>1, <2>2, OutcomeIsReported DEF Edited
<1>7. ASSUME NEW r \in Runs,
             \/ ModelAsks(r) \/ ModelStops(r) \/ CallFails(r) \/ LegacyRaises(r)
             \/ LegacyEnds(r) \/ VerifyStarts(r) \/ CheckRuns(r) \/ VerifyEnds(r)
             \/ RunRaises(r) \/ CallOutlived(r) \/ CommandHangs(r) \/ CheckHangs(r)
             \/ SoftLimit(r) \/ HardLimit(r) \/ WorkerLost(r)
      PROVE  Edited
  BY <1>7 DEF ModelAsks, ModelStops, CallFails, LegacyRaises, LegacyEnds, VerifyStarts,
              CheckRuns, VerifyEnds, RunRaises, CallOutlived, CommandHangs, CheckHangs,
              SoftLimit, HardLimit, WorkerLost, Edited, workspaceVars
<1>8. ASSUME NEW t \in Tasks, TaskEnds(t) PROVE Edited
  BY <1>8 DEF TaskEnds, Edited
<1>9. ASSUME NEW j \in Jobs, JobStep(j) \/ JobFails(j) \/ JobLost(j) PROVE Edited
  BY <1>9 DEF JobStep, JobReads, JobCompares, JobWrites, JobFails, JobLost, Edited,
              workspaceVars
<1> QED
  BY <1>1, <1>2, <1>3, <1>4, <1>5, <1>6, <1>7, <1>8, <1>9 DEF Next, AgentStep, AgentFault

\* What Edited means for the types, a step's directory and the clone.
LEMMA EditsKeep ==
    ASSUME Typed, Edited
    PROVE  /\ tree' \in [Places -> Dirs] /\ owner' \in [Files -> Runs \cup {Nobody}]
           /\ \A p \in Places : Keeps(tree[p], tree'[p]) \/ (p = Clone /\ TrustedDoes)
           /\ \A s \in Steps : run[s].pc \notin {"idle", "legacy", "mock"} => tree'[s] = tree[s]
           /\ \A t \in Tasks, f \in Files : At(t, "done") /\ owner'[f] = t =>
                owner[f] = t /\ tree'[Clone][f] = tree[Clone][f]
<1>0. tree \in [Places -> Dirs] /\ owner \in [Files -> Runs \cup {Nobody}]
  BY DEF Typed, WorkspacesTypeOK, Dirs
<1>1. CASE UNCHANGED <<tree, owner>>
  BY <1>0, <1>1 DEF Keeps
<1>2. ASSUME NEW x \in Runs \cup {Nobody}, NEW p \in Places, NEW after \in Dirs,
             Edits(x, p, after), Keeps(tree[p], after) \/ (p = Clone /\ TrustedDoes),
             p \in Steps => run[p].pc \in {"idle", "legacy", "mock"},
             x \in Runs => run[x].pc \in AtWork
      PROVE  /\ tree' \in [Places -> Dirs] /\ owner' \in [Files -> Runs \cup {Nobody}]
             /\ \A q \in Places : Keeps(tree[q], tree'[q]) \/ (q = Clone /\ TrustedDoes)
             /\ \A s \in Steps : run[s].pc \notin {"idle", "legacy", "mock"} => tree'[s] = tree[s]
             /\ \A t \in Tasks, f \in Files : At(t, "done") /\ owner'[f] = t =>
                  owner[f] = t /\ tree'[Clone][f] = tree[Clone][f]
  <2>1. tree' = [tree EXCEPT ![p] = after]
    BY <1>2 DEF Edits
  <2>2. owner' \in [Files -> Runs \cup {Nobody}]
    BY <1>0, <1>2 DEF Edits
  <2>3. \A q \in Places : Keeps(tree[q], tree'[q]) \/ (q = Clone /\ TrustedDoes)
    BY <1>0, <1>2, <2>1 DEF Keeps
  <2>4. \A s \in Steps : s \in Places
    BY DEF Places
  <2>5. ASSUME NEW t \in Tasks, NEW f \in Files, At(t, "done"), owner'[f] = t
        PROVE  owner[f] = t /\ tree'[Clone][f] = tree[Clone][f]
    <3>1. t # x
      BY <1>2, <2>5, WorkspacesAssumption DEF At, AtWork, Working, Verifying, Runs
    <3>2. CASE p = Clone
      <4>1. f \notin Changed(tree[Clone], after) /\ owner[f] = t
        BY <1>2, <2>5, <3>1, <3>2 DEF Edits
      <4> QED
        BY <1>0, <2>1, <3>2, <4>1 DEF Changed, Places
    <3>3. CASE p # Clone
      BY <1>0, <1>2, <2>1, <2>5, <3>3 DEF Edits, Places
    <3> QED
      BY <3>2, <3>3
  <2> QED
    BY <1>0, <1>2, <2>1, <2>2, <2>3, <2>4, <2>5
<1> QED
  BY <1>1, <1>2 DEF Edited

-----------------------------------------------------------------------------
(* What one step does to a run *)

\* What may follow on run r, which is not done.
MovesTo(r, x) ==
    \/ x.pc \in {"idle", "failed", "killed"}
    \/ x.pc \in AtWork \ Verifying /\ x.results = {}
    \/ /\ r \in Steps /\ At(r, "returned")
       /\ x.pc = "verify" /\ x.results = run[r].results
    \/ r \in Steps /\ run[r].pc \in Verifying /\ ~OnlyDocuments(r) /\ x.pc \in Verifying
    \/ /\ r \in Steps /\ At(r, "verify") /\ Verified(r)
       /\ OnlyDocuments(r) \/ Unchecked(r) = {}
       /\ x.pc = "done" /\ x.results = run[r].results
    \/ r \in Tasks /\ At(r, "returned") /\ x.pc = "done"
Moves(r, x) == CountedRun(r, x) /\ Reports(r, x) /\ ~At(r, "done") /\ MovesTo(r, x)

\* One run moves, or none does.
RunMoves ==
    \/ UNCHANGED run
    \/ \E r \in Runs : \E x \in Run : Moves(r, x) /\ run' = [run EXCEPT ![r] = x]
RunInv == Typed /\ Counted /\ NothingUnreported /\ Fresh

LEMMA Worker ==
    ASSUME RunInv, NEW r \in Runs
    PROVE  run[r] \in Run /\ CountedRun(r, run[r]) /\ Reports(r, run[r])
           /\ (run[r].pc \in AtWork \ Verifying => run[r].results = {})
  BY DEF RunInv, Typed, Counted, NothingUnreported, Fresh

\* An end without a result.
LEMMA EndMoves ==
    ASSUME RunInv, NEW r \in Runs, ~At(r, "done"),
           NEW pc \in {"idle", "failed", "killed"}, Ends(r, pc)
    PROVE  RunMoves
<1> DEFINE x == [NewRun EXCEPT !.pc = pc]
<1>1. x \in Run /\ x.pc = pc /\ x.edited = {}
  BY NewTyped DEF Run, NewRun, AtWork, Working, Verifying
<1>2. Moves(r, x)
  BY <1>1 DEF Moves, Reports, CountedRun, MovesTo, AtWork, Working, Verifying
<1> QED
  BY <1>1, <1>2 DEF Ends, RunMoves

\* An answer to a call, for a run that may have learnt of changed files.
LEMMA AnswerMoves ==
    ASSUME RunInv, NEW r \in Runs, run[r].pc \in {"calls", "hung"},
           NEW x \in Run, x.results = {}, x.adapter = run[r].adapter, Reports(r, x),
           NEW y \in {Answered(x), [Answered(x) EXCEPT !.limited = TRUE]},
           run' = [run EXCEPT ![r] = y]
    PROVE  RunMoves
<1>1. y \in Run /\ y.pc \in {"calls", "model", "failed"} /\ Reports(r, y)
      /\ (y.pc = "model" => y.round < MaxRounds)
      /\ (y.pc \in {"calls", "model"} => y.adapter = run[r].adapter /\ y.results = {})
  <2>1. /\ Answered(x) \in Run /\ Answered(x).pc \in {"calls", "model", "failed"}
        /\ Answered(x).pc = "model" => Answered(x).round < MaxRounds
        /\ Answered(x).pc \in {"calls", "model"} =>
             Answered(x).adapter = run[r].adapter /\ Answered(x).results = {}
        /\ \/ Answered(x).edited = x.edited /\ Answered(x).changed = x.changed
           \/ Answered(x).edited = {}
    BY AnsweredTyped
  <2>2. Reports(r, Answered(x))
    BY <2>1 DEF Reports
  <2>3. [Answered(x) EXCEPT !.limited = TRUE] \in Run
    BY <2>1 DEF Run
  <2> QED
    BY <2>1, <2>2, <2>3 DEF Run, Reports
<1>2. run[r].adapter # "none"
  BY Worker DEF CountedRun, AtWork, Working, Verifying
<1>3. Moves(r, y)
  BY <1>1, <1>2 DEF Moves, CountedRun, MovesTo, AtWork, Working, Verifying, At
<1> QED
  BY <1>1, <1>3 DEF RunMoves

\* The model's rounds and its calls.
LEMMA CallsMove ==
    ASSUME RunInv, NEW r \in Runs,
           \/ ModelAsks(r) \/ ModelStops(r) \/ CallSucceeds(r) \/ CallFails(r)
           \/ CallGarbled(r) \/ CallOutlived(r) \/ CommandHangs(r)
    PROVE  RunMoves
<1>0. /\ run[r] \in Run /\ CountedRun(r, run[r]) /\ Reports(r, run[r])
      /\ run[r].pc \in AtWork \ Verifying => run[r].results = {}
  BY Worker
<1>a. MaxRounds \in Nat /\ MaxCalls \in Nat /\ MaxMarkers \in Nat
      /\ 1..MaxCalls \subseteq 0..(MaxCalls + MaxMarkers)
      /\ 1..MaxMarkers \subseteq 0..(MaxCalls + MaxMarkers)
  BY AgentToolsAssumption
<1>1. CASE ModelAsks(r)
  <2>1. PICK n \in 1..MaxCalls :
          run' = [run EXCEPT ![r].pc = "calls", ![r].round = run[r].round + 1, ![r].calls = n]
    BY <1>1 DEF ModelAsks
  <2> DEFINE x == [run[r] EXCEPT !.pc = "calls", !.round = run[r].round + 1, !.calls = n]
  <2>2. run[r].pc = "model" /\ run[r].round + 1 \in 0..MaxRounds
    BY <1>0, <1>1, <1>a DEF ModelAsks, At, CountedRun, Run
  <2>3. run' = [run EXCEPT ![r] = x]
    BY <2>1 DEF RunInv, Typed
  <2>4. x \in Run
    BY <1>0, <1>a, <2>2 DEF Run, AtWork, Working, Verifying
  <2>5. Moves(r, x)
    BY <1>0, <2>2 DEF Moves, Reports, MovesTo, CountedRun, Run, AtWork, Working, Verifying, At
  <2> QED
    BY <2>3, <2>4, <2>5 DEF RunMoves
<1>2. CASE ModelStops(r)
  <2>0. run[r].pc = "model" /\ 0 \in 0..MaxRounds
    BY <1>2, <1>a DEF ModelStops, At
  <2>1. CASE run' = [run EXCEPT ![r].pc = "returned", ![r].round = 0]
    <3> DEFINE x == [run[r] EXCEPT !.pc = "returned", !.round = 0]
    <3>1. run' = [run EXCEPT ![r] = x]
      BY <2>1 DEF RunInv, Typed
    <3>2. x \in Run
      BY <1>0, <2>0 DEF Run, AtWork, Working, Verifying
    <3>3. Moves(r, x)
      BY <1>0, <2>0 DEF Moves, Reports, MovesTo, CountedRun, Run, AtWork, Working, Verifying, At
    <3> QED
      BY <3>1, <3>2, <3>3 DEF RunMoves
  <2>2. ASSUME NEW n \in 1..MaxMarkers,
               run' = [run EXCEPT ![r].pc = "legacy", ![r].round = 0, ![r].calls = n]
        PROVE  RunMoves
    <3> DEFINE x == [run[r] EXCEPT !.pc = "legacy", !.round = 0, !.calls = n]
    <3>1. run' = [run EXCEPT ![r] = x]
      BY <2>2 DEF RunInv, Typed
    <3>2. x \in Run
      BY <1>0, <1>a, <2>0 DEF Run, AtWork, Working, Verifying
    <3>3. Moves(r, x)
      BY <1>0, <2>0 DEF Moves, Reports, MovesTo, CountedRun, Run, AtWork, Working, Verifying, At
    <3> QED
      BY <3>1, <3>2, <3>3 DEF RunMoves
  <2> QED
    BY <1>2, <2>1, <2>2 DEF ModelStops
<1>3. CASE CallSucceeds(r)
  <2>0. run[r].pc \in {"calls", "hung"} /\ run[r].results = {}
    BY <1>0, <1>3 DEF CallSucceeds, At, AtWork, Working, Verifying
  <2>1. PICK t \in {u \in Granted(r) : Allows(u) /\ (Remote(u) => Served(u))} :
          \E o \in Outcomes(tree[Clone], t, r) : run' = [run EXCEPT ![r] =
            Answered([run[r] EXCEPT !.changed = @ \cup o.files,
              !.edited = @ \cup (IF t \in Local THEN EditedBy(r, o.after) ELSE {})])]
    BY <1>3, Zenon DEF CallSucceeds
  <2>2. PICK o \in Outcomes(tree[Clone], t, r) :
          run' = [run EXCEPT ![r] =
            Answered([run[r] EXCEPT !.changed = @ \cup o.files,
              !.edited = @ \cup (IF t \in Local THEN EditedBy(r, o.after) ELSE {})])]
    BY <2>1
  <2> DEFINE edits == IF t \in Local THEN EditedBy(r, o.after) ELSE {}
             x == [run[r] EXCEPT !.changed = run[r].changed \cup o.files,
                                 !.edited = run[r].edited \cup edits]
  <2>3. o.files \subseteq Files /\ edits \subseteq Files /\ (r \in Tasks => edits \subseteq o.files)
    <3>1. tree[Clone] \in Dirs
      BY DEF RunInv, Typed, WorkspacesTypeOK, Places, Dirs
    <3>2. t \in Local \ {"delete"} \/ t \notin Local
      BY GrantedKeeps DEF RunInv
    <3> QED
      BY <3>1, <3>2, OutcomeIsReported, RemoteOutcomeTyped DEF EditedBy
  <2>4. x \in Run /\ x.results = {} /\ x.adapter = run[r].adapter /\ Reports(r, x)
    <3> HIDE DEF edits
    <3> QED
      BY <1>0, <2>0, <2>3 DEF Run, Reports
  <2>5. run' = [run EXCEPT ![r] = Answered(x)]
    BY <2>2
  <2> HIDE DEF x
  <2> QED
    BY <2>0, <2>4, <2>5, AnswerMoves
<1>4. CASE CallFails(r) \/ CallGarbled(r) \/ CallOutlived(r)
  <2>1. run[r].pc = "calls" /\ run' = [run EXCEPT ![r] = Answered(run[r])]
    BY <1>4 DEF CallFails, CallGarbled, CallOutlived, At
  <2>2. run[r].pc \in {"calls", "hung"} /\ run[r].results = {}
    BY <1>0, <2>1 DEF AtWork, Working, Verifying
  <2> QED
    BY <1>0, <2>1, <2>2, AnswerMoves
<1>5. CASE CommandHangs(r)
  <2> DEFINE x == [run[r] EXCEPT !.pc = "hung"]
  <2>1. run[r].pc = "calls" /\ run' = [run EXCEPT ![r] = x]
    BY <1>5 DEF CommandHangs, Goes, At, RunInv, Typed
  <2>2. x \in Run /\ Moves(r, x)
    BY <1>0, <2>1 DEF Moves, Reports, MovesTo, CountedRun, Run, AtWork, Working, Verifying, At
  <2> QED
    BY <2>1, <2>2 DEF RunMoves
<1> QED
  BY <1>1, <1>2, <1>3, <1>4, <1>5

\* A run that has learnt of other changed files is a run.
LEMMA WithFilesTyped ==
    ASSUME NEW y \in Run, NEW files \in SUBSET Files, NEW edited \in SUBSET Files
    PROVE  [y EXCEPT !.changed = files, !.edited = edited] \in Run
  BY DEF Run

\* The legacy markers, and the adapter without a model.
LEMMA FilesMove ==
    ASSUME RunInv, NEW r \in Runs,
           LegacySucceeds(r) \/ LegacyRaises(r) \/ LegacyEnds(r) \/ MockRuns(r)
    PROVE  RunMoves
<1>0. /\ run[r] \in Run /\ CountedRun(r, run[r]) /\ Reports(r, run[r])
      /\ run[r].pc \in AtWork \ Verifying => run[r].results = {}
  BY Worker
<1>a. tree[PathOf(r)] \in Dirs
  BY DEF RunInv, Typed, WorkspacesTypeOK, Places, PathOf, Dirs
<1>b. r \in Tasks => PathOf(r) = Clone
  BY WorkspacesAssumption DEF PathOf
<1>1. CASE LegacySucceeds(r)
  <2>0. run[r].pc = "legacy" /\ run[r].results = {} /\ run[r].calls > 0
    BY <1>0, <1>1 DEF LegacySucceeds, At, AtWork, Working, Verifying
  <2>1. PICK k \in {i \in run[r].stage..3 : Allows(Stages[i])} :
          \E o \in Outcomes(tree[PathOf(r)], Stages[k], r) :
            run' = [run EXCEPT ![r].stage = k, ![r].calls = @ - 1, ![r].changed = @ \cup o.files,
                     ![r].edited = @ \cup EditedBy(r, o.after)]
    BY <1>1 DEF LegacySucceeds
  <2>2. PICK o \in Outcomes(tree[PathOf(r)], Stages[k], r) :
          run' = [run EXCEPT ![r].stage = k, ![r].calls = @ - 1, ![r].changed = @ \cup o.files,
                   ![r].edited = @ \cup EditedBy(r, o.after)]
    BY <2>1
  <2>3. k \in 1..3 /\ Stages[k] \in Local \ {"delete"}
    <3>1. k \in 1..3
      BY <1>0, <2>1 DEF Run
    <3> QED
      BY <2>1, <3>1 DEF Stages, Allows, HighRisk, Local, FileTools
  <2>4. /\ o.files \subseteq Files /\ EditedBy(r, o.after) \subseteq Files
        /\ r \in Tasks => EditedBy(r, o.after) \subseteq o.files
    BY <1>a, <1>b, <2>3, OutcomeIsReported DEF EditedBy
  <2> DEFINE y == [run[r] EXCEPT !.stage = k, !.calls = run[r].calls - 1]
             x == [y EXCEPT !.changed = run[r].changed \cup o.files,
                            !.edited = run[r].edited \cup EditedBy(r, o.after)]
  <2>5. run' = [run EXCEPT ![r] = x]
    BY <1>0, <2>2 DEF RunInv, Typed, Run
  <2>6. run[r].calls - 1 \in 0..(MaxCalls + MaxMarkers)
    BY <1>0, <2>0, AgentToolsAssumption DEF Run
  <2>7. x \in Run
    <3>1. y \in Run
      BY <1>0, <2>3, <2>6 DEF Run
    <3>2. /\ run[r].changed \cup o.files \in SUBSET Files
          /\ run[r].edited \cup EditedBy(r, o.after) \in SUBSET Files
      BY <1>0, <2>4 DEF Run
    <3> HIDE DEF y
    <3> QED
      BY <3>1, <3>2, WithFilesTyped
  <2>8. x.pc = "legacy" /\ x.round = run[r].round /\ x.adapter = run[r].adapter
        /\ x.results = {} /\ x.changed = run[r].changed \cup o.files
        /\ x.edited = run[r].edited \cup EditedBy(r, o.after)
    BY <1>0, <2>0 DEF Run
  <2> HIDE DEF x
  <2>9. Moves(r, x)
    BY <1>0, <2>0, <2>4, <2>8
       DEF Moves, Reports, MovesTo, CountedRun, AtWork, Working, Verifying, At
  <2> QED
    BY <2>5, <2>7, <2>9 DEF RunMoves
<1>2. CASE LegacyRaises(r)
  <2>1. ~At(r, "done") /\ Ends(r, "failed")
    BY <1>2 DEF LegacyRaises, At
  <2> QED
    BY <2>1, EndMoves
<1>3. CASE LegacyEnds(r)
  <2> DEFINE x == [run[r] EXCEPT !.pc = "returned", !.stage = 1]
  <2>1. run[r].pc = "legacy" /\ run' = [run EXCEPT ![r] = x]
    BY <1>3 DEF LegacyEnds, At, RunInv, Typed
  <2>2. x \in Run
    <3>1. 1 \in 1..3
      OBVIOUS
    <3> QED
      BY <1>0, <3>1 DEF Run, AtWork, Working, Verifying
  <2>3. Moves(r, x)
    BY <1>0, <2>1 DEF Moves, Reports, MovesTo, CountedRun, Run, AtWork, Working, Verifying, At
  <2> QED
    BY <2>1, <2>2, <2>3 DEF RunMoves
<1>4. CASE MockRuns(r)
  <2>1. PICK o \in Outcomes(tree[PathOf(r)], "write", r) :
          run' = [run EXCEPT ![r].pc = "returned", ![r].changed = o.files,
                             ![r].edited = EditedBy(r, o.after)]
    BY <1>4 DEF MockRuns
  <2>2. /\ o.files \subseteq Files /\ EditedBy(r, o.after) \subseteq Files
        /\ r \in Tasks => EditedBy(r, o.after) \subseteq o.files
    <3>1. "write" \in Local \ {"delete"}
      BY DEF Local, FileTools
    <3> QED
      BY <1>a, <1>b, <3>1, OutcomeIsReported DEF EditedBy
  <2> DEFINE x == [run[r] EXCEPT !.pc = "returned", !.changed = o.files,
                                 !.edited = EditedBy(r, o.after)]
  <2>3. run[r].pc = "mock" /\ run' = [run EXCEPT ![r] = x]
    BY <1>4, <2>1 DEF MockRuns, At, RunInv, Typed
  <2>4. x \in Run
    BY <1>0, <2>2 DEF Run, AtWork, Working, Verifying
  <2>5. x.pc = "returned" /\ x.round = run[r].round /\ x.adapter = run[r].adapter
        /\ x.results = run[r].results /\ x.changed = o.files /\ x.edited = EditedBy(r, o.after)
    BY <1>0 DEF Run
  <2> HIDE DEF x
  <2>6. Moves(r, x)
    BY <1>0, <2>2, <2>3, <2>5
       DEF Moves, Reports, MovesTo, CountedRun, AtWork, Working, Verifying, At
  <2> QED
    BY <2>3, <2>4, <2>6 DEF RunMoves
<1> QED
  BY <1>1, <1>2, <1>3, <1>4

\* A run begins, is verified, or is an exception.
LEMMA LivesMove ==
    ASSUME RunInv, NEW r \in Runs,
           \/ Begin(r) \/ RunRaises(r) \/ SoftLimit(r) \/ HardLimit(r) \/ WorkerLost(r)
           \/ r \in Steps /\ (VerifyStarts(r) \/ CheckRuns(r) \/ CheckHangs(r) \/ VerifyEnds(r))
    PROVE  RunMoves
<1>0. /\ run[r] \in Run /\ CountedRun(r, run[r]) /\ Reports(r, run[r])
      /\ run[r].pc \in AtWork \ Verifying => run[r].results = {}
  BY Worker
<1>1. CASE Begin(r)
  <2>1. PICK pc \in {"model", "mock"} :
          run' = [run EXCEPT ![r] = [NewRun EXCEPT !.pc = pc, !.adapter = pc]]
    BY <1>1 DEF Begin
  <2> DEFINE x == [NewRun EXCEPT !.pc = pc, !.adapter = pc]
  <2>2. x \in Run /\ x.pc = pc /\ x.adapter = pc /\ x.round = 0 /\ x.results = {}
        /\ x.edited = {}
    BY NewTyped DEF Run, NewRun, AtWork, Working, Verifying
  <2>3. CountedRun(r, x)
    <3>1. 0 < MaxRounds
      BY AgentToolsAssumption
    <3> QED
      BY <2>2, <3>1 DEF CountedRun, Verifying
  <2>4. Reports(r, x) /\ ~At(r, "done")
    BY <1>1, <2>2 DEF Reports, At, Begin
  <2>5. Moves(r, x)
    BY <2>2, <2>3, <2>4 DEF Moves, MovesTo, AtWork, Working, Verifying
  <2> QED
    BY <2>1, <2>2, <2>5 DEF RunMoves
<1>2. CASE RunRaises(r) \/ HardLimit(r) \/ WorkerLost(r)
  <2>1. PICK pc \in {"idle", "failed", "killed"} : ~At(r, "done") /\ Ends(r, pc)
    BY <1>2 DEF RunRaises, HardLimit, WorkerLost, At, AtWork, Working, Verifying
  <2> QED
    BY <2>1, EndMoves
<1>3. CASE SoftLimit(r)
  <2>0. ~At(r, "done")
    BY <1>3 DEF SoftLimit, At, AtWork, Working, Verifying
  <2>1. CASE Ends(r, "failed")
    BY <2>0, <2>1, EndMoves
  <2>2. CASE /\ run[r].pc \in {"calls", "hung"}
             /\ run' = [run EXCEPT ![r] = [Answered(run[r]) EXCEPT !.limited = TRUE]]
    <3>1. run[r].results = {}
      BY <1>0, <2>2 DEF AtWork, Working, Verifying
    <3> QED
      BY <1>0, <2>2, <3>1, AnswerMoves
  <2>3. ASSUME run[r].pc \in Verifying, ~OnlyDocuments(r), NEW c \in Unchecked(r),
               run' = [run EXCEPT ![r].pc = "verify", ![r].limited = TRUE,
                        ![r].results = @ \cup {[check |-> c, result |-> NoResult]}]
        PROVE  RunMoves
    <3> DEFINE y == [check |-> c, result |-> NoResult]
               x == [run[r] EXCEPT !.pc = "verify", !.limited = TRUE,
                                   !.results = run[r].results \cup {y}]
    <3>1. y \in Result
      BY DEF Unchecked, Selected, Uncommitted, Changed, Result, NoResult, CommandResults
    <3>2. run' = [run EXCEPT ![r] = x]
      BY <2>3 DEF RunInv, Typed
    <3>3. x \in Run
      BY <1>0, <3>1 DEF Run, AtWork, Working, Verifying
    <3>4. Moves(r, x)
      BY <1>0, <2>3 DEF Moves, Reports, MovesTo, CountedRun, Run, At, AtWork, Working, Verifying
    <3> QED
      BY <3>2, <3>3, <3>4 DEF RunMoves
  <2> QED
    BY <1>3, <2>1, <2>2, <2>3 DEF SoftLimit
<1>4. CASE r \in Steps /\ VerifyStarts(r)
  <2> DEFINE x == [run[r] EXCEPT !.pc = "verify", !.changed = {}]
  <2>1. run[r].pc = "returned" /\ run' = [run EXCEPT ![r] = x]
    BY <1>4 DEF VerifyStarts, At, RunInv, Typed
  <2>2. x \in Run
    BY <1>0 DEF Run, AtWork, Working, Verifying
  <2>3. Moves(r, x)
    BY <1>0, <1>4, <2>1, WorkspacesAssumption
       DEF Moves, Reports, MovesTo, CountedRun, Run, AtWork, Working, Verifying, At
  <2> QED
    BY <2>1, <2>2, <2>3 DEF RunMoves
<1>5. CASE r \in Steps /\ CheckRuns(r)
  <2>1. PICK c \in Unchecked(r), result \in CommandResults :
          run' = [run EXCEPT ![r].results = @ \cup {[check |-> c, result |-> result]}]
    BY <1>5 DEF CheckRuns
  <2> DEFINE y == [check |-> c, result |-> result]
             x == [run[r] EXCEPT !.results = run[r].results \cup {y}]
  <2>2. y \in Result
    BY DEF Unchecked, Selected, Uncommitted, Changed, Result
  <2>3. run' = [run EXCEPT ![r] = x]
    BY <2>1 DEF RunInv, Typed
  <2>4. x \in Run
    BY <1>0, <2>2 DEF Run
  <2>5. Moves(r, x)
    BY <1>0, <1>5 DEF CheckRuns, Moves, Reports, MovesTo, CountedRun, Run, At, AtWork, Working,
       Verifying
  <2> QED
    BY <2>3, <2>4, <2>5 DEF RunMoves
<1>6. CASE r \in Steps /\ VerifyEnds(r)
  <2>0. run[r].pc = "verify" /\ (OnlyDocuments(r) \/ Unchecked(r) = {})
    BY <1>6 DEF VerifyEnds, At
  <2>1. CASE Verified(r)
    <3> DEFINE x == [NewRun EXCEPT !.pc = "done", !.results = run[r].results]
    <3>1. run' = [run EXCEPT ![r] = x]
      BY <1>6, <2>1 DEF VerifyEnds
    <3>2. x \in Run /\ x.pc = "done" /\ x.edited = {} /\ x.results = run[r].results
      BY <1>0, NewTyped DEF Run, NewRun
    <3>3. Moves(r, x)
      BY <1>6, <2>0, <2>1, <3>2 DEF Moves, Reports, MovesTo, CountedRun, AtWork, Working, Verifying, At
    <3> QED
      BY <3>1, <3>2, <3>3 DEF RunMoves
  <2>2. CASE ~Verified(r) /\ Exhausted(r)
    <3>1. Ends(r, "failed") /\ ~At(r, "done")
      BY <1>6, <2>0, <2>2 DEF VerifyEnds, Ends, At
    <3> QED
      BY <3>1, EndMoves
  <2>3. CASE ~Verified(r) /\ ~Exhausted(r)
    <3> DEFINE x == [run[r] EXCEPT !.pc = run[r].adapter, !.attempt = run[r].attempt + 1,
                                   !.results = {}]
    <3>1. run' = [run EXCEPT ![r] = x]
      BY <1>6, <2>3 DEF VerifyEnds
    <3>2. run[r].attempt + 1 \in 0..MaxRepairs
      BY <1>0, <2>3, AgentToolsAssumption DEF Exhausted, Run
    <3>3. run[r].adapter \in {"model", "mock"} /\ run[r].round = 0
      BY <1>0, <2>0 DEF CountedRun, Run, AtWork, Working, Verifying
    <3>4. x \in Run
      BY <1>0, <3>2, <3>3 DEF Run, AtWork, Working, Verifying
    <3>5. x.pc = run[r].adapter /\ x.adapter = run[r].adapter /\ x.round = 0
          /\ x.results = {} /\ x.edited = run[r].edited /\ x.changed = run[r].changed
      BY <1>0, <3>3 DEF Run
    <3> HIDE DEF x
    <3>6. CountedRun(r, x)
      <4>1. 0 < MaxRounds
        BY AgentToolsAssumption
      <4> QED
        BY <3>3, <3>5, <4>1 DEF CountedRun, Verifying
    <3>7. Reports(r, x) /\ ~At(r, "done")
      BY <1>0, <2>0, <3>5 DEF Reports, At
    <3>8. Moves(r, x)
      BY <3>3, <3>5, <3>6, <3>7 DEF Moves, MovesTo, AtWork, Working, Verifying
    <3> QED
      BY <3>1, <3>4, <3>8 DEF RunMoves
  <2> QED
    BY <2>1, <2>2, <2>3
<1>7. CASE r \in Steps /\ CheckHangs(r)
  <2> DEFINE x == [run[r] EXCEPT !.pc = "check hung"]
  <2>1. run[r].pc = "verify" /\ ~OnlyDocuments(r) /\ run' = [run EXCEPT ![r] = x]
    BY <1>7 DEF CheckHangs, Goes, At, RunInv, Typed
  <2>2. x \in Run
    BY <1>0 DEF Run, AtWork, Working, Verifying
  <2>3. Moves(r, x)
    BY <1>0, <1>7, <2>1
       DEF Moves, Reports, MovesTo, CountedRun, Run, AtWork, Working, Verifying, At
  <2> QED
    BY <2>1, <2>2, <2>3 DEF RunMoves
<1> QED
  BY <1>1, <1>2, <1>3, <1>4, <1>5, <1>6, <1>7

\* All steps.
LEMMA StepMoves == RunInv /\ [Next]_allVars => RunMoves
<1> SUFFICES ASSUME RunInv, Next PROVE RunMoves
  BY DEF RunMoves, allVars, toolVars
<1>1. ASSUME NEW r \in Runs, NEW t \in Names, ServerEdits(r, t) PROVE RunMoves
  BY <1>1 DEF ServerEdits, RunMoves
<1>2. ASSUME NEW t \in Tasks, TaskEnds(t) PROVE RunMoves
  <2>0. t \in Runs /\ run[t] \in Run /\ Reports(t, run[t]) /\ run[t].pc = "returned"
    BY <1>2, Worker DEF Runs, TaskEnds, At
  <2> DEFINE x == [NewRun EXCEPT !.pc = "done", !.changed = run[t].changed,
                                 !.edited = run[t].edited]
  <2>1. run' = [run EXCEPT ![t] = x]
    BY <1>2 DEF TaskEnds
  <2>2. x \in Run /\ x.pc = "done" /\ x.edited = run[t].edited /\ x.changed = run[t].changed
    BY <2>0, NewTyped DEF Run, NewRun
  <2>3. Moves(t, x)
    BY <2>0, <2>2 DEF Moves, Reports, MovesTo, CountedRun, AtWork, Working, Verifying, At
  <2> QED
    BY <2>0, <2>1, <2>2, <2>3 DEF RunMoves
<1>3. ASSUME UNCHANGED toolVars PROVE RunMoves
  BY <1>3 DEF toolVars, RunMoves
<1> QED
  BY <1>1, <1>2, <1>3, CallsMove, FilesMove, LivesMove DEF Next, AgentStep, AgentFault

-----------------------------------------------------------------------------
(* The runs' part of the invariant *)

\* A run that is done stays as it is.
LEMMA RunsKeep ==
    ASSUME RunInv, RunMoves
    PROVE  /\ run' \in [Runs -> Run] /\ Counted' /\ NothingUnreported'
           /\ \A r \in Runs : At(r, "done") => run'[r] = run[r]
<1>0. run \in [Runs -> Run] /\ \A r \in Runs : CountedRun(r, run[r]) /\ Reports(r, run[r])
  BY DEF RunInv, Typed, Counted, NothingUnreported
<1>1. CASE UNCHANGED run
  BY <1>0, <1>1 DEF Counted, NothingUnreported, CountedRun, Reports
<1>2. ASSUME NEW r \in Runs, NEW x \in Run, Moves(r, x), run' = [run EXCEPT ![r] = x]
      PROVE  /\ run' \in [Runs -> Run]
             /\ \A q \in Runs : CountedRun(q, run'[q]) /\ Reports(q, run'[q])
             /\ \A q \in Runs : At(q, "done") => run'[q] = run[q]
  BY <1>0, <1>2 DEF Moves
<1> QED
  BY <1>0, <1>1, <1>2 DEF RunMoves, Counted, NothingUnreported, CountedRun, Reports

\* A result that passed is of a command that ended by itself with status 0.
LEMMA PassedResult ==
    ASSUME NEW y \in Result, Passed(y)
    PROVE  /\ y = [check |-> y.check, result |-> y.result]
           /\ y.result = [exit |-> 0, timedOut |-> FALSE]
<1>1. y = [check |-> y.check, result |-> y.result] /\ y.result \in CommandResults
  BY DEF Result
<1>2. \A z \in CommandResults : z = [exit |-> z.exit, timedOut |-> z.timedOut]
  BY DEF CommandResults
<1>3. y.result.timedOut = FALSE
  BY <1>1 DEF Passed, CommandResults
<1> QED
  BY <1>1, <1>2, <1>3 DEF Passed

\* The results of a verification are its own, and a step that is done has passed it:
\* its worktree is as the commands have seen it.
LEMMA StepsKeep ==
    ASSUME RunInv, RunMoves, Edited, DoneIsVerified
    PROVE  Fresh' /\ DoneIsVerified'
<1>0. run \in [Runs -> Run] /\ Steps \subseteq Runs
  BY DEF RunInv, Typed, Runs
<1>a. \A s \in Steps : run[s].pc \in {"returned", "done"} \cup Verifying => tree'[s] = tree[s]
  BY EditsKeep DEF RunInv, Verifying
<1>b. ASSUME NEW s \in Steps, tree'[s] = tree[s]
      PROVE  Uncommitted(s)' = Uncommitted(s) /\ OnlyDocuments(s)' = OnlyDocuments(s)
  BY <1>b DEF Uncommitted, OnlyDocuments
<1> DEFINE FreshAt(q) ==
             /\ run'[q].pc \in AtWork \ Verifying => run'[q].results = {}
             /\ q \in Steps /\ run'[q].pc \in Verifying /\ OnlyDocuments(q)' => run'[q].results = {}
           VerifiedAt(q) ==
             q \in Steps /\ run'[q].pc = "done" =>
               /\ Uncommitted(q)' # {}
               /\ \A f \in Uncommitted(q)' \ Documents : \A c \in Checks[f] :
                    [check |-> c, result |-> [exit |-> 0, timedOut |-> FALSE]] \in run'[q].results
               /\ \A x \in run'[q].results : x.result = [exit |-> 0, timedOut |-> FALSE]
<1>1. ASSUME NEW q \in Runs, run'[q] = run[q] PROVE FreshAt(q) /\ VerifiedAt(q)
  <2>1. FreshAt(q)
    BY <1>1, <1>a, <1>b DEF RunInv, Fresh, At
  <2>2. VerifiedAt(q)
    BY <1>1, <1>a, <1>b DEF DoneIsVerified, At
  <2> QED
    BY <2>1, <2>2
<1>2. ASSUME NEW r \in Runs, NEW x \in Run, Moves(r, x), run'[r] = x
      PROVE  FreshAt(r) /\ VerifiedAt(r)
  <2>1. CASE x.pc \in {"idle", "failed", "killed"}
    BY <1>2, <2>1 DEF AtWork, Working, Verifying
  <2>2. CASE x.pc \in AtWork \ Verifying /\ x.results = {}
    BY <1>2, <2>2 DEF AtWork, Working, Verifying
  <2>3. CASE r \in Steps /\ At(r, "returned") /\ x.pc = "verify" /\ x.results = run[r].results
    <3>1. run[r].results = {}
      BY <2>3 DEF RunInv, Fresh, At, AtWork, Working, Verifying
    <3> QED
      BY <1>2, <2>3, <3>1 DEF Verifying
  <2>4. CASE r \in Steps /\ run[r].pc \in Verifying /\ ~OnlyDocuments(r) /\ x.pc \in Verifying
    BY <1>2, <1>a, <1>b, <2>4 DEF At, Verifying
  <2>5. CASE /\ r \in Steps /\ At(r, "verify") /\ Verified(r)
             /\ OnlyDocuments(r) \/ Unchecked(r) = {}
             /\ x.pc = "done" /\ x.results = run[r].results
    <3>0. Uncommitted(r)' = Uncommitted(r)
      BY <1>a, <1>b, <2>5 DEF At, Verifying
    <3>1. CASE OnlyDocuments(r)
      <4>1. run[r].results = {} /\ Uncommitted(r) # {} /\ Uncommitted(r) \subseteq Documents
        BY <2>5, <3>1 DEF RunInv, Fresh, OnlyDocuments, At, Verifying
      <4> QED
        BY <1>2, <2>5, <3>0, <4>1 DEF AtWork, Working, Verifying
    <3>2. CASE ~OnlyDocuments(r)
      <4>1. Unchecked(r) = {} /\ Selected(r) # {} /\ \A y \in run[r].results : Passed(y)
        BY <2>5, <3>2 DEF Verified
      <4>2. \A y \in run[r].results :
              /\ y \in Result /\ y = [check |-> y.check, result |-> y.result]
              /\ y.result = [exit |-> 0, timedOut |-> FALSE]
        <5>1. run[r].results \subseteq Result
          BY <1>0, <2>5 DEF Run
        <5> QED
          BY <4>1, <5>1, PassedResult
      <4>3. ASSUME NEW f \in Uncommitted(r), NEW c \in Checks[f]
            PROVE  [check |-> c, result |-> [exit |-> 0, timedOut |-> FALSE]] \in run[r].results
        <5>1. PICK y \in run[r].results : y.check = c
          BY <4>1, <4>3 DEF Unchecked, Selected
        <5> QED
          BY <4>2, <5>1
      <4>4. Uncommitted(r) # {}
        BY <4>1 DEF Selected
      <4> QED
        BY <1>2, <2>5, <3>0, <4>2, <4>3, <4>4 DEF AtWork, Working, Verifying
    <3> QED
      BY <3>1, <3>2
  <2>6. CASE r \in Tasks /\ At(r, "returned") /\ x.pc = "done"
    BY <1>2, <2>6, WorkspacesAssumption DEF AtWork, Working, Verifying
  <2> HIDE DEF FreshAt, VerifiedAt
  <2> QED
    BY <1>2, <2>1, <2>2, <2>3, <2>4, <2>5, <2>6 DEF Moves, MovesTo
<1>3. \A q \in Runs : FreshAt(q) /\ VerifiedAt(q)
  <2>1. CASE UNCHANGED run
    BY <1>1, <2>1
  <2>2. ASSUME NEW r \in Runs, NEW x \in Run, Moves(r, x), run' = [run EXCEPT ![r] = x],
               NEW q \in Runs
        PROVE  FreshAt(q) /\ VerifiedAt(q)
    <3> HIDE DEF FreshAt, VerifiedAt
    <3> QED
      BY <1>0, <1>1, <1>2, <2>2
  <2> HIDE DEF FreshAt, VerifiedAt
  <2> QED
    BY <2>1, <2>2 DEF RunMoves
<1> QED
  BY <1>0, <1>3 DEF Fresh, DoneIsVerified, At

-----------------------------------------------------------------------------
(* Types of the rest *)

\* Losses are counted, and a worker finds out about tools that are not denied.
LEMMA RestTyped ==
    ASSUME Typed, [Next]_allVars
    PROVE  /\ losses' \in 0..MaxLosses
           /\ mode' \in {"local", "hybrid", "mcp"}
           /\ routes' \in [Runs -> SUBSET Accepted(Offered)]
           /\ inflight' \subseteq Runs \X Late
<1> DEFINE Rest ==
             /\ losses' \in 0..MaxLosses
             /\ mode' \in {"local", "hybrid", "mcp"}
             /\ routes' \in [Runs -> SUBSET Accepted(Offered)]
             /\ inflight' \subseteq Runs \X Late
<1>0. /\ losses \in 0..MaxLosses /\ mode \in {"local", "hybrid", "mcp"}
      /\ routes \in [Runs -> SUBSET Accepted(Offered)] /\ inflight \subseteq Runs \X Late
  BY DEF Typed, WorkspacesTypeOK
<1>a. UNCHANGED losses \/ Lose => losses' \in 0..MaxLosses
  BY <1>0, WorkspacesAssumption DEF Lose
<1>1. CASE UNCHANGED allVars
  BY <1>0, <1>1 DEF allVars, workspaceVars, toolVars
<1>2. ASSUME NEW r \in Runs, Begin(r) PROVE Rest
  <2>1. PICK offer \in SUBSET Offered : routes' = [routes EXCEPT ![r] = Accepted(offer)]
    BY <1>2, Zenon DEF Begin
  <2>2. Accepted(offer) \in SUBSET Accepted(Offered)
    BY <2>1 DEF Accepted
  <2> QED
    BY <1>0, <1>2, <2>1, <2>2 DEF Begin
<1>3. ASSUME NEW r \in Runs, CallOutlived(r) PROVE Rest
  <2>1. PICK t \in Editing(r) : inflight' = inflight \cup {<<r, t>>}
    BY <1>3 DEF CallOutlived
  <2>2. t \in Late
    BY GrantedKeeps DEF Editing, Late
  <2> QED
    BY <1>0, <1>a, <1>3, <2>1, <2>2 DEF CallOutlived
<1>4. ASSUME NEW r \in Runs, NEW t \in Names, ServerEdits(r, t) PROVE Rest
  BY <1>0, <1>4 DEF ServerEdits
<1>5. ASSUME NEW r \in Runs,
             \/ ModelAsks(r) \/ ModelStops(r) \/ CallSucceeds(r) \/ CallFails(r)
             \/ LegacySucceeds(r) \/ LegacyRaises(r) \/ LegacyEnds(r) \/ MockRuns(r)
             \/ VerifyStarts(r) \/ CheckRuns(r) \/ VerifyEnds(r) \/ HardLimit(r)
      PROVE  Rest
  BY <1>0, <1>5 DEF ModelAsks, ModelStops, CallSucceeds, CallFails, LegacySucceeds,
     LegacyRaises, LegacyEnds, MockRuns, VerifyStarts, CheckRuns, VerifyEnds, HardLimit,
     workspaceVars
<1>6. ASSUME NEW r \in Runs,
             \/ RunRaises(r) \/ CallGarbled(r) \/ CommandHangs(r) \/ CheckHangs(r)
             \/ SoftLimit(r) \/ WorkerLost(r)
      PROVE  Rest
  <2>1. UNCHANGED <<mode, routes, inflight>> /\ (UNCHANGED losses \/ Lose)
    BY <1>6 DEF RunRaises, CallGarbled, CommandHangs, CheckHangs, SoftLimit, WorkerLost
  <2> QED
    BY <1>0, <1>a, <2>1
<1>7. ASSUME NEW t \in Tasks, TaskEnds(t) PROVE Rest
  <2>1. UNCHANGED <<mode, routes, inflight>> /\ (UNCHANGED losses \/ Lose)
    BY <1>7 DEF TaskEnds
  <2> QED
    BY <1>0, <1>a, <2>1
<1>8. ASSUME NEW j \in Jobs, JobStep(j) \/ JobFails(j) \/ JobLost(j), UNCHANGED toolVars
      PROVE  Rest
  <2>1. UNCHANGED losses \/ Lose
    BY <1>8 DEF JobStep, JobReads, JobCompares, JobWrites, JobFails, JobLost, workspaceVars
  <2> QED
    BY <1>0, <1>8, <1>a, <2>1 DEF toolVars
<1> HIDE DEF Rest
<1>9. Next => Rest
  BY <1>2, <1>3, <1>4, <1>5, <1>6, <1>7, <1>8 DEF Next, AgentStep, AgentFault
<1>10. UNCHANGED allVars => Rest
  BY <1>1 DEF Rest
<1>11. Rest
  BY <1>9, <1>10
<1> QED
  BY <1>11 DEF Rest

-----------------------------------------------------------------------------
(* The index *)
JobTyped == /\ index \in [Files -> Contents] /\ job \in [Jobs -> Job] /\ raced \subseteq Files
            /\ Planned
JobInv == Typed /\ Planned /\ IndexInv

\* What no step of a run or of a job undoes.
Settled ==
    /\ \A t \in Tasks : At(t, "done") => run'[t] = run[t]
    /\ \A t \in Tasks, f \in Files : At(t, "done") /\ owner'[f] = t =>
         owner[f] = t /\ Draft(f)' = Draft(f)

LEMMA StepSettles ==
    ASSUME Typed, Edited, \A r \in Runs : At(r, "done") => run'[r] = run[r]
    PROVE  Settled
<1>1. Tasks \subseteq Runs
  BY DEF Runs
<1>2. \A t \in Tasks, f \in Files : At(t, "done") /\ owner'[f] = t =>
        owner[f] = t /\ tree'[Clone][f] = tree[Clone][f]
  BY EditsKeep
<1> QED
  BY <1>1, <1>2 DEF Settled, Draft

\* A step of a run: what is settled for a task that is done is what its job relies on.
LEMMA RunIndex ==
    ASSUME JobInv, Settled, UNCHANGED indexVars
    PROVE  JobTyped' /\ IndexInv'
<1>0. UNCHANGED <<index, job, raced>>
  BY DEF indexVars
<1>1. JobTyped'
  BY <1>0 DEF JobInv, Typed, Planned, JobTyped
<1>2. JobOfTask'
  BY <1>0 DEF JobInv, IndexInv, JobOfTask, Settled, At, InJob
<1>3. DraftsAgree'
  <2> SUFFICES ASSUME NEW t \in Tasks, NEW f \in Files, NEW k \in Jobs,
                      owner'[f] = t, f \in run'[t].changed, Holding(k, f)',
                      k = t \/ (job[t].pc = "done" /\ f \notin job[k].overtaken)
               PROVE  job[k].drafts[f] = Draft(f)'
    BY <1>0 DEF DraftsAgree
  <2>1. Holding(k, f)
    BY <1>0 DEF Holding
  <2>2. At(t, "done")
    BY <2>1 DEF JobInv, IndexInv, JobOfTask, Holding
  <2>3. run'[t] = run[t] /\ owner[f] = t /\ Draft(f)' = Draft(f)
    BY <2>2 DEF Settled
  <2> QED
    BY <2>1, <2>3 DEF JobInv, IndexInv, DraftsAgree
<1>4. ComparedAgrees'
  BY <1>0 DEF JobInv, IndexInv, ComparedAgrees
<1>5. ReportedAgrees'
  <2> SUFFICES ASSUME NEW f \in Files \ raced, NEW t \in Tasks, owner'[f] = t,
                      f \in run'[t].changed, job[t].pc = "done"
               PROVE  index[f] = Draft(f)'
    BY <1>0 DEF ReportedAgrees
  <2>1. At(t, "done")
    BY DEF JobInv, IndexInv, JobOfTask
  <2>2. run'[t] = run[t] /\ owner[f] = t /\ Draft(f)' = Draft(f)
    BY <2>1 DEF Settled
  <2> QED
    BY <2>1, <2>2 DEF JobInv, IndexInv, ReportedAgrees
<1> QED
  BY <1>1, <1>2, <1>3, <1>4, <1>5 DEF IndexInv

\* The end of a task, which may queue its job: the job holds nothing yet.
LEMMA EndIndex ==
    ASSUME JobInv, Settled, NEW e \in Tasks, TaskEnds(e)
    PROVE  JobTyped' /\ IndexInv'
<1> DEFINE x == [NewJob EXCEPT !.pc = "queued", !.files = run[e].changed]
<1>0. /\ UNCHANGED <<tree, owner, index, raced>>
      /\ job' = job \/ job' = [job EXCEPT ![e] = x]
      /\ run' = [run EXCEPT ![e] = run'[e]]
      /\ run'[e].pc = "done" /\ run'[e].changed = run[e].changed
      /\ run[e].pc = "returned" /\ run[e].changed \subseteq Files
  BY DEF TaskEnds, At, JobInv, Typed, Runs, NewRun, Run
<1>a. x \in Job /\ x.pc = "queued" /\ x.files = run[e].changed /\ x.replace = {}
  BY <1>0, NewTyped DEF Job, NewJob, InJob
<1>b. job \in [Jobs -> Job] /\ job[e].pc = "none" /\ Tasks \subseteq Jobs /\ run \in [Runs -> Run]
      /\ Tasks \subseteq Runs
  BY <1>0 DEF JobInv, Typed, IndexInv, JobOfTask, At, Jobs, Runs
<1>c. /\ job' \in [Jobs -> Job] /\ job'[e] \in {job[e], x}
      /\ \A k \in Jobs \ {e} : job'[k] = job[k]
      /\ \A t \in Tasks \ {e} : run'[t] = run[t]
  <2> HIDE DEF x
  <2> QED
    BY <1>0, <1>a, <1>b
<1>d. \A f \in Files : ~Holding(e, f)' /\ Draft(f)' = Draft(f)
      /\ \A k \in Jobs \ {e} : Holding(k, f)' <=> Holding(k, f)
  BY <1>0, <1>a, <1>b, <1>c DEF Holding, Draft
<1> HIDE DEF x
<1>1. JobTyped'
  BY <1>0, <1>a, <1>c DEF JobInv, Typed, Planned, JobTyped
<1>2. JobOfTask'
  <2> SUFFICES ASSUME NEW t \in Tasks
               PROVE  /\ job'[t].pc # "none" => run'[t].pc = "done"
                      /\ job'[t].pc \in InJob => job'[t].files = run'[t].changed
    BY DEF JobOfTask, At
  <2>1. CASE t = e
    BY <1>0, <1>a, <1>b, <1>c, <2>1 DEF InJob
  <2>2. CASE t # e
    BY <1>b, <1>c, <2>2 DEF JobInv, IndexInv, JobOfTask, At
  <2> QED
    BY <2>1, <2>2
<1>3. DraftsAgree'
  <2> SUFFICES ASSUME NEW t \in Tasks, NEW f \in Files, NEW k \in Jobs,
                      owner'[f] = t, f \in run'[t].changed, Holding(k, f)',
                      k = t \/ (job'[t].pc = "done" /\ f \notin job'[k].overtaken)
               PROVE  job'[k].drafts[f] = Draft(f)'
    BY DEF DraftsAgree
  <2>1. k # e /\ t # e
    BY <1>a, <1>b, <1>c, <1>d
  <2> QED
    BY <1>0, <1>b, <1>c, <1>d, <2>1 DEF JobInv, IndexInv, DraftsAgree
<1>4. ComparedAgrees'
  BY <1>0, <1>a, <1>b, <1>c DEF JobInv, IndexInv, ComparedAgrees
<1>5. ReportedAgrees'
  <2> SUFFICES ASSUME NEW f \in Files \ raced, NEW t \in Tasks, owner[f] = t,
                      f \in run'[t].changed, job'[t].pc = "done"
               PROVE  index[f] = Draft(f)'
    BY <1>0 DEF ReportedAgrees
  <2>1. t # e
    BY <1>a, <1>b, <1>c
  <2>2. At(t, "done") /\ run'[t] = run[t] /\ job'[t] = job[t]
    BY <1>b, <1>c, <2>1 DEF JobInv, IndexInv, JobOfTask
  <2> QED
    BY <1>d, <2>2 DEF JobInv, IndexInv, ReportedAgrees
<1> QED
  BY <1>1, <1>2, <1>3, <1>4, <1>5 DEF IndexInv

\* A step of one job that leaves the index alone and brings it to state x.
LEMMA JobIndex ==
    ASSUME JobInv, NEW j \in Jobs, NEW x \in Job,
           UNCHANGED <<run, tree, owner, index, raced>>, job' = [job EXCEPT ![j] = x],
           x.replace \subseteq x.files, job[j].pc \in InJob, x.pc \notin {"none", "done"},
           x.pc \in InJob => x.files = job[j].files,
           \A f \in x.files : x.pc \in {"read", "compared"} =>
             x.drafts[f] = Draft(f) \/ (Holding(j, f) /\ x.drafts[f] = job[j].drafts[f]
                                          /\ x.overtaken = job[j].overtaken),
           \A f \in x.files \ (x.replace \cup x.overtaken) :
             x.pc = "compared" => index[f] = x.drafts[f]
    PROVE  JobTyped' /\ IndexInv'
<1>0. /\ job' \in [Jobs -> Job] /\ job'[j] = x /\ \A k \in Jobs \ {j} : job'[k] = job[k]
      /\ \A f \in Files : Draft(f)' = Draft(f)
      /\ Tasks \subseteq Jobs
  BY DEF JobInv, Typed, Draft, Jobs
<1>1. JobTyped'
  BY <1>0 DEF JobInv, Typed, Planned, JobTyped
<1>2. JobOfTask'
  BY <1>0 DEF JobInv, IndexInv, JobOfTask, At, InJob
<1>3. DraftsAgree'
  <2> SUFFICES ASSUME NEW t \in Tasks, NEW f \in Files, NEW k \in Jobs,
                      owner[f] = t, f \in run[t].changed, Holding(k, f)',
                      k = t \/ (job'[t].pc = "done" /\ f \notin job'[k].overtaken)
               PROVE  job'[k].drafts[f] = Draft(f)
    BY <1>0 DEF DraftsAgree
  <2>1. t # j => job'[t] = job[t]
    BY <1>0
  <2>2. CASE k # j
    BY <1>0, <2>1, <2>2 DEF JobInv, IndexInv, DraftsAgree, Holding
  <2>3. CASE k = j
    BY <1>0, <2>1, <2>3 DEF JobInv, IndexInv, DraftsAgree, Holding
  <2> QED
    BY <2>2, <2>3
<1>4. ComparedAgrees'
  BY <1>0 DEF JobInv, IndexInv, ComparedAgrees
<1>5. ReportedAgrees'
  BY <1>0 DEF JobInv, IndexInv, ReportedAgrees, At
<1> QED
  BY <1>1, <1>2, <1>3, <1>4, <1>5 DEF IndexInv

\* A job that reads, compares, or is tried again.
LEMMA JobsIndex ==
    ASSUME JobInv, NEW j \in Jobs, UNCHANGED toolVars,
           JobReads(j) \/ JobCompares(j) \/ JobFails(j) \/ JobLost(j)
    PROVE  JobTyped' /\ IndexInv'
<1>0. job[j] \in Job /\ job \in [Jobs -> Job] /\ job[j].replace \subseteq job[j].files
  BY DEF JobInv, Typed, Planned
<1>a. UNCHANGED run
  BY DEF toolVars
<1>1. CASE JobReads(j)
  <2> DEFINE drafts == [f \in Files |-> IF f \in job[j].files THEN Draft(f) ELSE Absent]
             x == [job[j] EXCEPT !.pc = "read", !.drafts = drafts]
  <2>1. job' = [job EXCEPT ![j] = x] /\ job[j].pc = "queued"
        /\ UNCHANGED <<tree, owner, index, raced>>
    BY <1>0, <1>1 DEF JobReads, workspaceVars
  <2>2. \A f \in Files : Draft(f) \in Contents
    BY DEF Draft, Contents, JobInv, Typed, WorkspacesTypeOK, Places
  <2>3. drafts \in [Files -> Contents] /\ \A f \in job[j].files : drafts[f] = Draft(f)
    BY <1>0, <2>2 DEF Contents, Job
  <2>4. /\ x \in Job /\ x.pc = "read" /\ x.files = job[j].files /\ x.drafts = drafts
        /\ x.replace = job[j].replace
    <3> HIDE DEF drafts
    <3> QED
      BY <1>0, <2>3 DEF Job, InJob
  <2> HIDE DEF x, drafts
  <2> QED
    BY <1>0, <1>a, <2>1, <2>3, <2>4, JobIndex DEF InJob
<1>2. CASE JobCompares(j)
  <2> DEFINE x == [job[j] EXCEPT !.pc = "compared", !.replace = Differing(j)]
  <2>1. job' = [job EXCEPT ![j] = x] /\ job[j].pc = "read"
        /\ UNCHANGED <<tree, owner, index, raced>>
    BY <1>0, <1>2 DEF JobCompares, workspaceVars
  <2>2. /\ Differing(j) \subseteq job[j].files /\ job[j].files \subseteq Files
        /\ \A f \in job[j].files \ Differing(j) : index[f] = job[j].drafts[f]
    BY <1>0 DEF Differing, Job
  <2>3. /\ x \in Job /\ x.pc = "compared" /\ x.files = job[j].files /\ x.replace = Differing(j)
        /\ x.drafts = job[j].drafts /\ x.overtaken = job[j].overtaken
    BY <1>0, <2>2 DEF Job, InJob
  <2>4. \A f \in x.files : Holding(j, f)
    BY <2>1, <2>3 DEF Holding
  <2> HIDE DEF x
  <2>5. x.pc \notin {"none", "done"} /\ x.replace \subseteq x.files
        /\ (x.pc \in InJob => x.files = job[j].files) /\ job[j].pc \in InJob
    BY <2>1, <2>2, <2>3 DEF InJob
  <2>6. \A f \in x.files : x.pc \in {"read", "compared"} =>
          x.drafts[f] = Draft(f) \/ (Holding(j, f) /\ x.drafts[f] = job[j].drafts[f]
                                       /\ x.overtaken = job[j].overtaken)
    BY <2>3, <2>4
  <2>7. \A f \in x.files \ (x.replace \cup x.overtaken) :
          x.pc = "compared" => index[f] = x.drafts[f]
    BY <2>2, <2>3
  <2> QED
    BY <1>a, <2>1, <2>3, <2>5, <2>6, <2>7, JobIndex
<1>3. ASSUME NEW x, x \in Job, x.pc \in {"queued", "given up"}, x.replace = {},
             x.pc = "queued" => x.files = job[j].files,
             job' = [job EXCEPT ![j] = x], job[j].pc \in {"read", "compared"},
             UNCHANGED <<tree, owner, index, raced>>
      PROVE  JobTyped' /\ IndexInv'
  <2>1. x.pc \notin {"none", "done", "read", "compared"} /\ x.replace \subseteq x.files
        /\ (x.pc \in InJob => x.files = job[j].files) /\ job[j].pc \in InJob
    BY <1>3 DEF InJob
  <2> QED
    BY <1>a, <1>3, <2>1, JobIndex
<1>b. MaxRetries \in Nat /\ job[j].retries \in 0..MaxRetries /\ job[j].files \subseteq Files
  BY <1>0, CodeIndexAssumption DEF Job
<1>4. CASE JobFails(j)
  <2>1. CASE job[j].retries < MaxRetries
    <3> DEFINE x == [NewJob EXCEPT !.pc = "queued", !.files = job[j].files,
                                   !.retries = job[j].retries + 1]
    <3>a. job[j].retries + 1 \in 0..MaxRetries
      BY <1>b, <2>1
    <3>1. x \in Job /\ x.pc = "queued" /\ x.replace = {} /\ x.files = job[j].files
      BY <1>b, <3>a, NewTyped DEF Job, NewJob, InJob
    <3>2. job' = [job EXCEPT ![j] = x]
      BY <1>0, <1>4, <2>1 DEF JobFails
    <3> HIDE DEF x
    <3> QED
      BY <1>3, <1>4, <3>1, <3>2 DEF JobFails
  <2>2. CASE ~(job[j].retries < MaxRetries)
    <3> DEFINE x == [NewJob EXCEPT !.pc = "given up"]
    <3>1. x \in Job /\ x.pc = "given up" /\ x.replace = {}
      BY NewTyped DEF Job, NewJob, InJob
    <3>2. job' = [job EXCEPT ![j] = x]
      BY <1>0, <1>4, <2>2 DEF JobFails
    <3> HIDE DEF x
    <3> QED
      BY <1>3, <1>4, <3>1, <3>2 DEF JobFails
  <2> QED
    BY <2>1, <2>2
<1>5. CASE JobLost(j)
  <2> DEFINE x == [NewJob EXCEPT !.pc = "queued", !.files = job[j].files,
                                 !.retries = job[j].retries]
  <2>1. x \in Job /\ x.pc = "queued" /\ x.replace = {} /\ x.files = job[j].files
    BY <1>b, NewTyped DEF Job, NewJob, InJob
  <2>2. job' = [job EXCEPT ![j] = x]
    BY <1>0, <1>5 DEF JobLost
  <2> HIDE DEF x
  <2> QED
    BY <1>3, <1>5, <2>1, <2>2 DEF JobLost
<1> QED
  BY <1>1, <1>2, <1>4, <1>5

\* A job that writes overtakes all that hold a file of it, and what it has been
\* overtaken on itself is raced.
LEMMA WritesIndex ==
    ASSUME JobInv, NEW j \in Jobs, UNCHANGED toolVars, JobWrites(j)
    PROVE  JobTyped' /\ IndexInv'
<1> DEFINE x(k) == [job[k] EXCEPT !.overtaken = job[k].overtaken \cup (job[j].files \cap job[k].files)]
           y == [NewJob EXCEPT !.pc = "done"]
<1>0. /\ UNCHANGED <<run, tree, owner>> /\ job[j].pc = "compared"
      /\ index' = [f \in Files |-> IF f \in job[j].replace THEN job[j].drafts[f] ELSE index[f]]
      /\ raced' = raced \cup job[j].overtaken
  BY DEF JobWrites, toolVars, workspaceVars
<1>a. /\ job \in [Jobs -> Job] /\ index \in [Files -> Contents] /\ Tasks \subseteq Jobs
      /\ \A k \in Jobs : job[k].replace \subseteq job[k].files
  BY DEF JobInv, Typed, Planned, Jobs
<1>b. \A k \in Jobs : job'[k] = IF k = j THEN y
                                ELSE IF job[k].pc \in {"read", "compared"} THEN x(k) ELSE job[k]
  BY DEF JobWrites
<1>c. y \in Job /\ y.pc = "done" /\ y.replace = {} /\ y.files = {}
  BY NewTyped DEF Job, NewJob
<1>d. ASSUME NEW k \in Jobs
      PROVE  /\ x(k) \in Job /\ x(k).pc = job[k].pc /\ x(k).files = job[k].files
             /\ x(k).drafts = job[k].drafts /\ x(k).replace = job[k].replace
             /\ x(k).overtaken = job[k].overtaken \cup (job[j].files \cap job[k].files)
  <2>1. job[k].overtaken \cup (job[j].files \cap job[k].files) \subseteq Files
    BY <1>a DEF Job
  <2> QED
    BY <1>a, <2>1 DEF Job
<1> HIDE DEF x, y
<1>e. \A k \in Jobs : job'[k] \in Job
  BY <1>a, <1>b, <1>c, <1>d
<1>f. ASSUME NEW k \in Jobs, k # j
      PROVE  /\ job'[k].pc = job[k].pc /\ job'[k].files = job[k].files
             /\ job'[k].drafts = job[k].drafts /\ job'[k].replace = job[k].replace
             /\ job[k].overtaken \subseteq job'[k].overtaken
             /\ job[k].pc \in {"read", "compared"} =>
                  job[j].files \cap job[k].files \subseteq job'[k].overtaken
  BY <1>b, <1>d, <1>f
<1>g. job'[j].pc = "done" /\ job'[j].replace = {} /\ job'[j].files = {}
  BY <1>b, <1>c
<1>h. job[j].replace \subseteq job[j].files /\ job[j].files \subseteq Files
      /\ \A f \in Files : Draft(f)' = Draft(f)
  BY <1>0, <1>a DEF Job, Draft
<1>1. JobTyped'
  <2>1. job' \in [Jobs -> Job]
    BY <1>e DEF JobWrites
  <2>2. index' \in [Files -> Contents]
    BY <1>0, <1>a DEF Job
  <2>3. raced' \subseteq Files
    BY <1>0, <1>a DEF JobInv, Typed, Job
  <2>4. Planned'
    BY <1>a, <1>f, <1>g DEF Planned
  <2> QED
    BY <2>1, <2>2, <2>3, <2>4 DEF JobTyped
<1>2. JobOfTask'
  <2> SUFFICES ASSUME NEW t \in Tasks
               PROVE  /\ job'[t].pc # "none" => run[t].pc = "done"
                      /\ job'[t].pc \in InJob => job'[t].files = run[t].changed
    BY <1>0 DEF JobOfTask, At
  <2>1. CASE t = j
    BY <1>0, <1>g, <2>1 DEF JobInv, IndexInv, JobOfTask, At, InJob
  <2>2. CASE t # j
    BY <1>a, <1>f, <2>2 DEF JobInv, IndexInv, JobOfTask, At
  <2> QED
    BY <2>1, <2>2
<1>i. ASSUME NEW t \in Tasks, t = j PROVE job[j].files = run[t].changed
  BY <1>0, <1>i DEF JobInv, IndexInv, JobOfTask, InJob
<1>3. DraftsAgree'
  <2> SUFFICES ASSUME NEW t \in Tasks, NEW f \in Files, NEW k \in Jobs,
                      owner[f] = t, f \in run[t].changed, Holding(k, f)',
                      k = t \/ (job'[t].pc = "done" /\ f \notin job'[k].overtaken)
               PROVE  job'[k].drafts[f] = Draft(f)
    BY <1>0, <1>h DEF DraftsAgree
  <2>1. k # j
    BY <1>g DEF Holding
  <2>2. Holding(k, f)
    BY <1>f, <2>1 DEF Holding
  <2>3. k = t \/ (job[t].pc = "done" /\ f \notin job[k].overtaken)
    <3>1. CASE t = j
      BY <1>f, <1>i, <2>1, <2>2, <3>1 DEF Holding
    <3>2. CASE t # j
      BY <1>a, <1>f, <2>1, <3>2
    <3> QED
      BY <3>1, <3>2
  <2> QED
    BY <1>f, <2>1, <2>2, <2>3 DEF JobInv, IndexInv, DraftsAgree
<1>4. ComparedAgrees'
  <2> SUFFICES ASSUME NEW k \in Jobs, NEW f \in Files, job'[k].pc = "compared",
                      f \in job'[k].files, f \notin job'[k].replace \cup job'[k].overtaken
               PROVE  index'[f] = job'[k].drafts[f]
    BY DEF ComparedAgrees
  <2>1. k # j
    BY <1>g
  <2>2. f \notin job[j].files /\ index[f] = job[k].drafts[f]
    BY <1>f, <2>1 DEF JobInv, IndexInv, ComparedAgrees
  <2> QED
    BY <1>0, <1>f, <1>h, <2>1, <2>2
<1>5. ReportedAgrees'
  <2> SUFFICES ASSUME NEW f \in Files, f \notin raced, f \notin job[j].overtaken,
                      NEW t \in Tasks, owner[f] = t, At(t, "done"), f \in run[t].changed,
                      job'[t].pc = "done"
               PROVE  index'[f] = Draft(f)
    BY <1>0, <1>h DEF ReportedAgrees, At
  <2>1. CASE f \in job[j].replace
    <3>1. Holding(j, f)
      BY <1>0, <1>h, <2>1 DEF Holding
    <3>2. j = t \/ job[t].pc = "done"
      BY <1>a, <1>f
    <3>3. job[j].drafts[f] = Draft(f)
      BY <3>1, <3>2 DEF JobInv, IndexInv, DraftsAgree
    <3> QED
      BY <1>0, <2>1, <3>3
  <2>2. CASE f \notin job[j].replace
    <3>1. index'[f] = index[f]
      BY <1>0, <2>2
    <3>2. CASE t = j
      <4>1. Holding(j, f)
        BY <1>0, <1>i, <3>2 DEF Holding
      <4>2. job[j].drafts[f] = Draft(f) /\ index[f] = job[j].drafts[f]
        BY <1>0, <2>2, <3>2, <4>1 DEF JobInv, IndexInv, DraftsAgree, ComparedAgrees, Holding
      <4> QED
        BY <3>1, <4>2
    <3>3. CASE t # j
      BY <1>a, <1>f, <3>1, <3>3 DEF JobInv, IndexInv, ReportedAgrees
    <3> QED
      BY <3>2, <3>3
  <2> QED
    BY <2>1, <2>2
<1> QED
  BY <1>1, <1>2, <1>3, <1>4, <1>5 DEF IndexInv

-----------------------------------------------------------------------------
(* The invariant, and what follows from it *)

\* The invariant holds initially.
LEMMA InitInv == Init => Inv
<1> SUFFICES ASSUME Init PROVE Inv
  OBVIOUS
<1>0. /\ tree = [p \in Places |-> Clean] /\ owner = [f \in Files |-> Nobody] /\ losses = 0
      /\ mode \in {"local", "hybrid", "mcp"} /\ routes = [r \in Runs |-> {}]
      /\ run = [r \in Runs |-> NewRun] /\ inflight = {}
      /\ index = Nothing /\ raced = {}
      /\ job = [[j \in Jobs |-> NewJob] EXCEPT ![Full].pc = "queued", ![Full].files = Files]
  BY DEF Init, WorkspacesInit, ToolsInit, IndexInit
<1>1. \A j \in Jobs : /\ job[j] \in Job /\ job[j].replace = {}
                      /\ job[j].pc = IF j = Full THEN "queued" ELSE "none"
  BY <1>0, NewTyped DEF Job, NewJob, InJob
<1>2. job \in [Jobs -> Job]
  BY <1>0, <1>1
<1>3. Typed
  BY <1>0, <1>2, NewTyped, WorkspacesAssumption DEF Typed, WorkspacesTypeOK, Nothing, Dirs
<1>4. Counted /\ NothingUnreported /\ Fresh /\ DoneIsVerified
  BY <1>0 DEF Counted, CountedRun, NothingUnreported, Reports, Fresh, DoneIsVerified, NewRun, AtWork,
     Working, Verifying, At, Runs
<1>5. \A t \in Tasks : t \in Jobs /\ job[t].pc = "none"
  BY <1>1, CodeIndexAssumption DEF Jobs, Runs
<1>6. IndexInv
  <2>1. JobOfTask
    BY <1>5 DEF JobOfTask, InJob
  <2>2. DraftsAgree /\ ComparedAgrees
    BY <1>1 DEF DraftsAgree, ComparedAgrees, Holding
  <2>3. ReportedAgrees
    BY <1>5 DEF ReportedAgrees
  <2> QED
    BY <2>1, <2>2, <2>3 DEF IndexInv
<1> QED
  BY <1>1, <1>3, <1>4, <1>6 DEF Inv, Planned

\* Every step keeps it.
LEMMA NextInv == Inv /\ [Next]_allVars => Inv'
<1> SUFFICES ASSUME Inv, [Next]_allVars PROVE Inv'
  OBVIOUS
<1>0. RunInv /\ JobInv /\ Typed /\ DoneIsVerified
  BY DEF Inv, RunInv, JobInv
<1>1. Edited /\ RunMoves
  BY <1>0, StepEdits, StepMoves
<1>2. /\ run' \in [Runs -> Run] /\ Counted' /\ NothingUnreported'
      /\ \A r \in Runs : At(r, "done") => run'[r] = run[r]
  BY <1>0, <1>1, RunsKeep
<1>3. Fresh' /\ DoneIsVerified'
  BY <1>0, <1>1, StepsKeep
<1>4. Settled
  BY <1>0, <1>1, <1>2, StepSettles
<1>5. JobTyped' /\ IndexInv'
  <2>1. CASE UNCHANGED indexVars
    BY <1>0, <1>4, <2>1, RunIndex
  <2>2. ASSUME NEW t \in Tasks, TaskEnds(t) PROVE JobTyped' /\ IndexInv'
    BY <1>0, <1>4, <2>2, EndIndex
  <2>3. ASSUME NEW j \in Jobs, JobStep(j) \/ JobFails(j) \/ JobLost(j), UNCHANGED toolVars
        PROVE  JobTyped' /\ IndexInv'
    BY <1>0, <2>3, JobsIndex, WritesIndex DEF JobStep
  <2>4. UNCHANGED allVars => UNCHANGED indexVars
    BY DEF allVars
  <2> QED
    BY <2>1, <2>2, <2>3, <2>4 DEF Next
<1>6. Typed'
  BY <1>0, <1>1, <1>2, <1>5, RestTyped, EditsKeep DEF Typed, WorkspacesTypeOK, JobTyped, Dirs
<1> QED
  BY <1>2, <1>3, <1>5, <1>6 DEF Inv, JobTyped

\* The invariant in every reachable state.
LEMMA InvAlways == Spec => []Inv
<1> QED
  BY InitInv, NextInv, PTL DEF Spec

\* Workspaces, runs, discovered tools, index and jobs keep their types: in particular
\* no run makes more rounds, calls or repairs than the settings allow, no job more
\* retries, whatever limits and lost workers interrupt them.
THEOREM TypeCorrect == Spec => []TypeOK
<1>1. Inv => TypeOK
  <2> SUFFICES ASSUME Inv PROVE TypeOK
    OBVIOUS
  <2>0. Typed /\ Planned
    BY DEF Inv
  <2>1. \A r \in Runs : run[r] \in Run /\ \A x \in run[r].results : x.result \in CommandResults
    BY <2>0 DEF Typed, Run, Result
  <2>2. ToolsTypeOK
    <3>1. Accepted(Offered) \subseteq Offered /\ Late \subseteq Names
      BY DEF Accepted, Late, Names, Local, FileTools
    <3>2. routes \in [Runs -> SUBSET Offered] /\ inflight \subseteq Runs \X Names
      BY <2>0, <3>1 DEF Typed
    <3> QED
      BY <2>0, <2>1, <3>2 DEF Typed, Run, ToolsTypeOK
  <2>3. IndexTypeOK
    BY <2>0 DEF Typed, Job, Planned, IndexTypeOK
  <2> QED
    BY <2>0, <2>2, <2>3 DEF Typed, TypeOK
<1> QED
  BY <1>1, InvAlways, PTL

\* A step that is done has a change, and all commands which apply to it have ended by
\* themselves with status 0 on it, or it is documents only; no one touches the worktree
\* between the commands and the end, or after it.
THEOREM DoneIsVerifiedAlways == Spec => []DoneIsVerified
<1>1. Inv => DoneIsVerified
  BY DEF Inv
<1> QED
  BY <1>1, InvAlways, PTL

\* The index agrees with the clone on what the last editor's job has indexed, unless
\* jobs with the file overlapped: reading, comparing and writing are three steps, and
\* runs, retries, lost workers and the full index may come between them.  Whatever
\* tool, marker or adapter of the workspace made the edit, the report named it.
THEOREM IndexAgreesAlways == Spec => []IndexAgrees
<1>1. Inv => IndexAgrees
  <2> SUFFICES ASSUME Inv, NEW f \in Files \ raced, NEW t \in Tasks,
                      owner[f] = t, At(t, "done"), f \in run[t].edited, job[t].pc = "done"
               PROVE  index[f] = Draft(f)
    BY DEF IndexAgrees
  <2>1. f \in run[t].changed
    BY DEF Inv, NothingUnreported, Reports, Runs
  <2> QED
    BY <2>1 DEF Inv, IndexInv, ReportedAgrees
<1> QED
  BY <1>1, InvAlways, PTL

\* A file's content vanishes, from the clone only, when a remote tool that the
\* operator trusted works on it, for a run that discovered it: no own tool, marker or
\* otherwise offered tool leads an agent to a deletion.
THEOREM DeletionIsTrustedAlways == Spec => DeletionIsTrusted
<1>1. ASSUME Inv, [Next]_allVars
      PROVE  [\A p \in Places, f \in Files : Vanishes(p, f) =>
                /\ p = Clone
                /\ \/ \E r \in Runs : run'[r] # run[r] /\ routes[r] \cap Trusted # {}
                   \/ \E x \in inflight \ inflight' : x[2] \in Trusted]_allVars
  <2>1. Typed /\ Edited
    BY <1>1, StepEdits DEF Inv
  <2>2. \A p \in Places : Keeps(tree[p], tree'[p]) \/ (p = Clone /\ TrustedDoes)
    BY <2>1, EditsKeep
  <2> QED
    BY <2>2 DEF Keeps, Vanishes, TrustedDoes
<1> QED
  BY <1>1, InvAlways, PTL DEF Spec, DeletionIsTrusted
=============================================================================
