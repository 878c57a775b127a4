--------------------------- MODULE MaterialProofs ---------------------------
(***************************************************************************)
(* The 300mm managers beside the carriers, for any number of jobs and      *)
(* substrates and any bounds: the validator accepts what the job managers  *)
(* do, the history of a wafer explains its state, the durations of the     *)
(* performance tracker add up.  With the carriers' invariant they give the *)
(* types of the whole.                                                     *)
(***************************************************************************)
EXTENDS MCMaterial, CarrierManagerProofs, SequenceTheorems

(***************************************************************************)
(* Process and control jobs.                                               *)
(***************************************************************************)

\* A job that has ended has its second time stamp, and no job is none of it.
EndedStamped ==
    /\ \A j \in ProcessJob : pjs[j].state \in PJEnded => pjs[j].completed
    /\ \A j \in ControlJob : cjs[j].state \in CJEnded => cjs[j].completed
AbsentIsNoJob ==
    /\ \A j \in ProcessJob : pjs[j].state = "Absent" => pjs[j] = NoJob
    /\ \A j \in ControlJob : cjs[j].state = "Absent" => cjs[j] = NoJob

JobInv == JobTypeOK /\ EndedStamped /\ AbsentIsNoJob

\* What a row of the process job table may be.
LEMMA PJRow ==
    ASSUME NEW t \in PJTransitions, NEW from \in t.expected
    PROVE  /\ t.to \in StatesOf(PJTransitions) /\ t.to # "Absent"
           /\ from # t.to => ValidPJ(from, t.to)
<1>1. t.to \in StatesOf(PJTransitions)
    BY Zenon DEF StatesOf
<1>2. /\ t.to # "Absent"
      /\ <<from, t.to>> \in validPJTransitions
    BY DEF PJTransitions, Transition, AbortFrom, validPJTransitions
<1> QED  BY <1>1, <1>2 DEF ValidPJ

LEMMA CJRow ==
    ASSUME NEW t \in CJTransitions, NEW from \in t.expected
    PROVE  /\ t.to \in StatesOf(CJTransitions) /\ t.to # "Absent"
           /\ from # t.to => ValidCJ(from, t.to)
<1>1. t.to \in StatesOf(CJTransitions)
    BY Zenon DEF StatesOf
<1>2. /\ t.to # "Absent"
      /\ <<from, t.to>> \in validCJTransitions
    BY DEF CJTransitions, Transition, StopFrom, validCJTransitions
<1> QED  BY <1>1, <1>2 DEF ValidCJ

LEMMA JobInitInv == JobInit => JobInv
<1> SUFFICES ASSUME JobInit PROVE JobInv
    OBVIOUS
<1>1. NoJob \in Jobs(PJTransitions) /\ NoJob \in Jobs(CJTransitions)
    BY DEF NoJob, Jobs
<1>2. JobTypeOK
    BY <1>1 DEF JobInit, JobTypeOK
<1> QED  BY <1>2 DEF JobInit, JobInv, EndedStamped, AbsentIsNoJob, NoJob, PJEnded, CJEnded

\* transition keeps the type of a job and stamps its end.
LEMMA AfterTyped ==
    ASSUME NEW S, NEW job \in [state : S, started : BOOLEAN, completed : BOOLEAN],
           NEW t, t.to \in S, NEW running, NEW ended
    PROVE  /\ After(job, t, running, ended) \in [state : S, started : BOOLEAN, completed : BOOLEAN]
           /\ After(job, t, running, ended).state = t.to
           /\ t.to \in ended => After(job, t, running, ended).completed
<1>1. (job.started \/ t.to = running) \in BOOLEAN /\ (job.completed \/ t.to \in ended) \in BOOLEAN
    OBVIOUS
<1> QED  BY <1>1 DEF After

LEMMA JobStep ==
    ASSUME JobInv, [JobNext]_jobVars
    PROVE  /\ JobInv'
           /\ \A j \in ProcessJob : pjs'[j].state # pjs[j].state =>
                 \/ pjs[j] = NoJob \/ (pjs'[j] = NoJob /\ pjs[j].completed)
                 \/ ValidPJ(pjs[j].state, pjs'[j].state)
           /\ \A j \in ControlJob : cjs'[j].state # cjs[j].state =>
                 \/ cjs[j] = NoJob \/ (cjs'[j] = NoJob /\ cjs[j].completed)
                 \/ ValidCJ(cjs[j].state, cjs'[j].state)
<1> DEFINE ValidPJStep(j) == pjs'[j].state # pjs[j].state =>
                 \/ pjs[j] = NoJob \/ (pjs'[j] = NoJob /\ pjs[j].completed)
                 \/ ValidPJ(pjs[j].state, pjs'[j].state)
           ValidCJStep(j) == cjs'[j].state # cjs[j].state =>
                 \/ cjs[j] = NoJob \/ (cjs'[j] = NoJob /\ cjs[j].completed)
                 \/ ValidCJ(cjs[j].state, cjs'[j].state)
           Good == /\ JobInv'
                   /\ \A i \in ProcessJob : ValidPJStep(i)
                   /\ \A i \in ControlJob : ValidCJStep(i)
<1> SUFFICES Good
    OBVIOUS
<1>0. /\ NoJob \in Jobs(PJTransitions) /\ NoJob \in Jobs(CJTransitions)
      /\ NewJob \in Jobs(PJTransitions) /\ NewJob \in Jobs(CJTransitions)
      /\ NoJob.state = "Absent" /\ NewJob.state = "Queued"
    BY DEF NoJob, NewJob, Jobs, StatesOf
\* A step that puts a well formed job in place of another one.
<1>1. ASSUME NEW j \in ProcessJob, NEW new \in Jobs(PJTransitions),
             pjs' = [pjs EXCEPT ![j] = new], cjs' = cjs,
             new.state \in PJEnded => new.completed,
             new.state = "Absent" => new = NoJob,
             \/ pjs[j] = NoJob \/ (new = NoJob /\ pjs[j].completed)
             \/ ValidPJ(pjs[j].state, new.state) \/ new.state = pjs[j].state
      PROVE  Good
    <2>1. pjs'[j] = new /\ \A i \in ProcessJob : i # j => pjs'[i] = pjs[i]
        BY <1>1 DEF JobInv, JobTypeOK
    <2>2. JobTypeOK'
        BY <1>1 DEF JobInv, JobTypeOK
    <2>3. EndedStamped' /\ AbsentIsNoJob'
        BY <1>1, <2>1 DEF JobInv, EndedStamped, AbsentIsNoJob
    <2>4. \A i \in ProcessJob : ValidPJStep(i)
        BY <1>1, <2>1
    <2> QED  BY <1>1, <2>2, <2>3, <2>4 DEF JobInv
<1>2. ASSUME NEW j \in ControlJob, NEW new \in Jobs(CJTransitions),
             cjs' = [cjs EXCEPT ![j] = new], pjs' = pjs,
             new.state \in CJEnded => new.completed,
             new.state = "Absent" => new = NoJob,
             \/ cjs[j] = NoJob \/ (new = NoJob /\ cjs[j].completed)
             \/ ValidCJ(cjs[j].state, new.state) \/ new.state = cjs[j].state
      PROVE  Good
    <2>1. cjs'[j] = new /\ \A i \in ControlJob : i # j => cjs'[i] = cjs[i]
        BY <1>2 DEF JobInv, JobTypeOK
    <2>2. JobTypeOK'
        BY <1>2 DEF JobInv, JobTypeOK
    <2>3. EndedStamped' /\ AbsentIsNoJob'
        BY <1>2, <2>1 DEF JobInv, EndedStamped, AbsentIsNoJob
    <2>4. \A i \in ControlJob : ValidCJStep(i)
        BY <1>2, <2>1
    <2> QED  BY <1>2, <2>2, <2>3, <2>4 DEF JobInv
<1>3. ASSUME NEW j \in ProcessJob, CreatePJ(j) \/ RemovePJ(j)
      PROVE  Good
    <2>1. CASE CreatePJ(j)
        BY <2>1, <1>0, <1>1 DEF CreatePJ, PJEnded
    <2>2. CASE RemovePJ(j)
        <3>1. pjs[j].completed
            BY <2>2 DEF RemovePJ, JobInv, EndedStamped
        <3> QED  BY <2>2, <3>1, <1>0, <1>1 DEF RemovePJ, PJEnded
    <2> QED  BY <1>3, <2>1, <2>2
<1>4. ASSUME NEW j \in ProcessJob, NEW t \in PJTransitions, DrivePJ(j, t)
      PROVE  Good
    <2> DEFINE new == After(pjs[j], t, "Processing", PJEnded)
    <2>1. pjs' = [pjs EXCEPT ![j] = new] /\ cjs' = cjs /\ pjs[j].state \in t.expected
        BY <1>4 DEF DrivePJ
    <2>2. /\ t.to \in StatesOf(PJTransitions) /\ t.to # "Absent"
          /\ pjs[j].state # t.to => ValidPJ(pjs[j].state, t.to)
        BY <2>1, PJRow
    <2>3. pjs[j] \in [state : StatesOf(PJTransitions) \cup {"Absent"}, started : BOOLEAN,
                      completed : BOOLEAN]
        BY DEF JobInv, JobTypeOK, Jobs
    <2>4. /\ new \in Jobs(PJTransitions) /\ new.state = t.to
          /\ t.to \in PJEnded => new.completed
        <3> DEFINE S == StatesOf(PJTransitions) \cup {"Absent"}
        <3>1. t.to \in S /\ pjs[j] \in [state : S, started : BOOLEAN, completed : BOOLEAN]
            BY <2>2, <2>3
        <3>2. Jobs(PJTransitions) = [state : S, started : BOOLEAN, completed : BOOLEAN]
            BY DEF Jobs
        <3> HIDE DEF S
        <3> QED  BY <3>1, <3>2, AfterTyped
    <2> HIDE DEF new
    <2> QED  BY <2>1, <2>2, <2>4, <1>1
<1>5. ASSUME NEW j \in ControlJob, CreateCJ(j) \/ RemoveCJ(j)
      PROVE  Good
    <2>1. CASE CreateCJ(j)
        BY <2>1, <1>0, <1>2 DEF CreateCJ, CJEnded
    <2>2. CASE RemoveCJ(j)
        <3>1. cjs[j].completed
            BY <2>2 DEF RemoveCJ, JobInv, EndedStamped
        <3> QED  BY <2>2, <3>1, <1>0, <1>2 DEF RemoveCJ, CJEnded
    <2> QED  BY <1>5, <2>1, <2>2
<1>6. ASSUME NEW j \in ControlJob, NEW t \in CJTransitions, DriveCJ(j, t)
      PROVE  Good
    <2> DEFINE new == After(cjs[j], t, "Executing", CJEnded)
    <2>1. cjs' = [cjs EXCEPT ![j] = new] /\ pjs' = pjs /\ cjs[j].state \in t.expected
        BY <1>6 DEF DriveCJ
    <2>2. /\ t.to \in StatesOf(CJTransitions) /\ t.to # "Absent"
          /\ cjs[j].state # t.to => ValidCJ(cjs[j].state, t.to)
        BY <2>1, CJRow
    <2>3. cjs[j] \in [state : StatesOf(CJTransitions) \cup {"Absent"}, started : BOOLEAN,
                      completed : BOOLEAN]
        BY DEF JobInv, JobTypeOK, Jobs
    <2>4. /\ new \in Jobs(CJTransitions) /\ new.state = t.to
          /\ t.to \in CJEnded => new.completed
        <3> DEFINE S == StatesOf(CJTransitions) \cup {"Absent"}
        <3>1. t.to \in S /\ cjs[j] \in [state : S, started : BOOLEAN, completed : BOOLEAN]
            BY <2>2, <2>3
        <3>2. Jobs(CJTransitions) = [state : S, started : BOOLEAN, completed : BOOLEAN]
            BY DEF Jobs
        <3> HIDE DEF S
        <3> QED  BY <3>1, <3>2, AfterTyped
    <2> HIDE DEF new
    <2> QED  BY <2>1, <2>2, <2>4, <1>2
<1>7. CASE UNCHANGED jobVars
    <2>1. pjs' = pjs /\ cjs' = cjs
        BY <1>7 DEF jobVars
    <2>2. JobInv'
        BY <2>1 DEF JobInv, JobTypeOK, EndedStamped, AbsentIsNoJob
    <2> QED  BY <2>1, <2>2
<1> HIDE DEF Good
<1>8. CASE JobNext
    <2>1. CASE \E j \in ProcessJob :
                  CreatePJ(j) \/ RemovePJ(j) \/ \E t \in PJTransitions : DrivePJ(j, t)
        BY <2>1, <1>3, <1>4, Zenon
    <2>2. CASE \E j \in ControlJob :
                  CreateCJ(j) \/ RemoveCJ(j) \/ \E t \in CJTransitions : DriveCJ(j, t)
        BY <2>2, <1>5, <1>6, Zenon
    <2> QED  BY <1>8, <2>1, <2>2 DEF JobNext
<1> QED  BY <1>7, <1>8

LEMMA JobInvariant == JobSpec => []JobInv
<1>1. JobInv /\ [JobNext]_jobVars => JobInv'
    BY JobStep
<1> QED  BY JobInitInv, <1>1, PTL DEF JobSpec

\* The validator accepts every step of the two job managers, and a job leaves
\* its manager only with its second time stamp (transition and Remove of
\* processjob.go and controljob.go against the tables of state.go).
THEOREM JobStepsAccepted == JobSpec => JobStepsValid
<1>1. JobInv /\ [JobNext]_jobVars =>
        [/\ \A j \in ProcessJob : pjs'[j].state # pjs[j].state =>
             \/ pjs[j] = NoJob \/ (pjs'[j] = NoJob /\ pjs[j].completed)
             \/ ValidPJ(pjs[j].state, pjs'[j].state)
         /\ \A j \in ControlJob : cjs'[j].state # cjs[j].state =>
             \/ cjs[j] = NoJob \/ (cjs'[j] = NoJob /\ cjs[j].completed)
             \/ ValidCJ(cjs[j].state, cjs'[j].state)]_jobVars
    BY JobStep
<1> QED  BY JobInvariant, <1>1, PTL DEF JobSpec, JobStepsValid

(***************************************************************************)
(* Substrates.  The last mark is not ahead of the history.                 *)
(***************************************************************************)

Explained(w) == IsPath(w) /\ w.since <= Len(w.history) /\ Explanation(w)

SubstrateInv ==
    SubstrateTypeOK /\ \A s \in Substrate : substrates[s] # Untracked => Explained(substrates[s])

LEMMA TrackedIsWafer ==
    ASSUME SubstrateTypeOK, NEW s \in Substrate, substrates[s] # Untracked
    PROVE  substrates[s] \in Wafers
    BY DEF SubstrateTypeOK

\* One more move at the end of a path.
LEMMA MoveExplained ==
    ASSUME NEW w \in Wafers, Explained(w), NEW to \in Location,
           NEW v, v = [w EXCEPT !.location = to, !.history = Append(@, <<w.location, to>>),
                                !.state = StateAfterMove(@, to[1])]
    PROVE  v \in Wafers /\ Explained(v)
<1> DEFINE h == w.history
           n == Len(w.history)
           move == <<w.location, to>>
<1>1. /\ h \in Seq(Location \X Location) /\ w.location \in Location /\ move \in Location \X Location
      /\ w.state \in SubstrateState /\ w.since \in Nat
    BY DEF Wafers
<1>2. /\ Len(Append(h, move)) = n + 1 /\ n \in Nat
      /\ \A i \in 1..n : Append(h, move)[i] = h[i]
      /\ Append(h, move)[n + 1] = move
      /\ DOMAIN Append(h, move) = 1..(n + 1) /\ DOMAIN h = 1..n
      /\ Append(h, move) \in Seq(Location \X Location)
    BY <1>1
<1>3. to[1] \in LocationType
    BY DEF Location
<1>4. /\ v.location = to /\ v.history = Append(h, move)
      /\ v.mark = w.mark /\ v.since = w.since
      /\ v.state = StateAfterMove(w.state, to[1])
    BY DEF Wafers
<1>5. v.state \in SubstrateState
    BY <1>1, <1>3, <1>4 DEF StateAfterMove, LocationType, SubstrateState
<1>6. v \in Wafers
    BY <1>1, <1>2, <1>5 DEF Wafers
<1> HIDE DEF h, n
<1>7. IsPath(v)
    <2> SUFFICES ASSUME NEW i \in 1..(n + 1)
                 PROVE  v.history[i][2] = IF i = n + 1 THEN to ELSE v.history[i + 1][1]
        BY <1>2, <1>4 DEF IsPath
    <2>1. CASE i = n + 1
        BY <2>1, <1>2, <1>4
    <2>2. CASE i = n /\ i # n + 1
        <3>1. h[n][2] = w.location
            BY <2>2, <1>2 DEF Explained, IsPath, h, n
        <3> QED  BY <3>1, <2>2, <1>2, <1>4
    <2>3. CASE i \in 1..(n - 1)
        <3>2. i \in 1..n /\ i + 1 \in 1..n /\ i # n + 1 /\ i # n
            BY <2>3, <1>2
        <3>1. h[i][2] = h[i + 1][1]
            <4>1. i \in DOMAIN h
                BY <3>2, <1>2
            <4> QED  BY <4>1, <3>2 DEF Explained, IsPath, h, n
        <3> QED  BY <3>1, <3>2, <1>2, <1>4
    <2>4. i = n + 1 \/ (i = n /\ i # n + 1) \/ i \in 1..(n - 1)
        BY <1>2
    <2> QED  BY <2>1, <2>2, <2>3, <2>4
<1>8. w.since \in Nat /\ w.since <= n /\ v.since = w.since /\ v.mark = w.mark
    BY <1>1, <1>4 DEF Explained, n
<1>9. /\ DOMAIN v.history = 1..(n + 1) /\ Len(v.history) = n + 1 /\ v.history[n + 1][2] = to
      /\ DOMAIN w.history = 1..n /\ Len(w.history) = n
      /\ \A i \in 1..n : v.history[i] = w.history[i]
    <2>1. v.history[n + 1] = move /\ move[2] = to
        BY <1>2, <1>4
    <2> QED  BY <2>1, <1>2, <1>4 DEF h, n
<1>10. ASSUME NEW a \in Nat, NEW b \in Int, NEW types, b <= n
       PROVE  Only(w, a, b, types) => Only(v, a, b, types)
    BY <1>10, <1>9, <1>2 DEF Only
<1>11. ASSUME NEW a \in Nat, NEW types, Only(w, a, n, types), to[1] \in types
       PROVE  Only(v, a, n + 1, types)
    <2> SUFFICES ASSUME NEW i \in 1..(n + 1), a <= i
                 PROVE  v.history[i][2][1] \in types
        BY <1>9 DEF Only
    <2>1. CASE i = n + 1
        BY <2>1, <1>9, <1>11
    <2>2. CASE i \in 1..n
        <3>1. w.history[i][2][1] \in types
            BY <2>2, <1>9, <1>11, <1>2 DEF Only
        <3> QED  BY <3>1, <2>2, <1>9
    <2>3. i = n + 1 \/ i \in 1..n
        BY <1>2
    <2> QED  BY <2>1, <2>2, <2>3
<1>12. ASSUME NEW types, NEW rest, to[1] \in types
       PROVE  MovedTo(v, types, rest)
    <2>1. n + 1 \in DOMAIN v.history /\ v.since < n + 1 /\ v.history[n + 1][2][1] \in types
        BY <1>12, <1>9, <1>8, <1>2
    <2>2. Only(v, (n + 1) + 1, Len(v.history), rest)
        BY <1>9, <1>2 DEF Only
    <2> QED  BY <2>1, <2>2 DEF MovedTo
<1>13. ASSUME NEW types, NEW rest, MovedTo(w, types, rest), to[1] \in rest
       PROVE  MovedTo(v, types, rest)
    <2>1. PICK i \in 1..n : /\ w.since < i /\ w.history[i][2][1] \in types
                            /\ Only(w, i + 1, n, rest)
        BY <1>13, <1>9 DEF MovedTo
    <2>2. Only(v, i + 1, Len(v.history), rest)
        <3>1. PICK a \in Nat : a = i + 1
            BY <1>2
        <3>2. Only(v, a, n + 1, rest)
            BY <3>1, <2>1, <1>11, <1>13
        <3> QED  BY <3>1, <3>2, <1>9
    <2>3. i \in DOMAIN v.history /\ v.since < i /\ v.history[i][2][1] \in types
        BY <2>1, <1>9, <1>8, <1>2
    <2> QED  BY <2>2, <2>3 DEF MovedTo
<1>14. ASSUME ReturnedToPort(w), to[1] \in {"Port", "Buffer"}
       PROVE  ReturnedToPort(v)
    <2>1. PICK i \in 1..n :
            /\ w.since < i /\ w.history[i][2][1] = "Port"
            /\ Only(w, i + 1, n, {"Port", "Buffer"})
            /\ \/ w.mark = "Processed" /\ Only(w, w.since + 1, i - 1, {"Buffer"})
               \/ \E k \in 1..n :
                     /\ w.since < k /\ k < i /\ w.history[k][2][1] \in {"Chamber", "Aligner"}
                     /\ Only(w, k + 1, i - 1, {"Buffer"})
        BY <1>14, <1>9 DEF ReturnedToPort
    <2>2. Only(v, i + 1, Len(v.history), {"Port", "Buffer"})
        <3>1. PICK a \in Nat : a = i + 1
            BY <1>2
        <3>2. Only(v, a, n + 1, {"Port", "Buffer"})
            BY <3>1, <2>1, <1>11, <1>14
        <3> QED  BY <3>1, <3>2, <1>9
    <2>3. i \in DOMAIN v.history /\ v.since < i /\ v.history[i][2][1] = "Port"
        BY <2>1, <1>9, <1>8, <1>2
    <2>4. CASE w.mark = "Processed" /\ Only(w, w.since + 1, i - 1, {"Buffer"})
        <3>1. v.mark = "Processed" /\ Only(v, v.since + 1, i - 1, {"Buffer"})
            <4>1. PICK a \in Nat : a = w.since + 1
                BY <1>8
            <4>2. PICK b \in Int : b = i - 1 /\ b <= n
                BY <1>2
            <4>3. Only(v, a, b, {"Buffer"})
                BY <4>1, <4>2, <2>4, <1>10
            <4> QED  BY <4>1, <4>2, <4>3, <2>4, <1>8
        <3> QED  BY <3>1, <2>2, <2>3 DEF ReturnedToPort
    <2>5. CASE \E k \in 1..n :
                 /\ w.since < k /\ k < i /\ w.history[k][2][1] \in {"Chamber", "Aligner"}
                 /\ Only(w, k + 1, i - 1, {"Buffer"})
        <3>1. PICK k \in 1..n :
                 /\ w.since < k /\ k < i /\ w.history[k][2][1] \in {"Chamber", "Aligner"}
                 /\ Only(w, k + 1, i - 1, {"Buffer"})
            BY <2>5
        <3>2. Only(v, k + 1, i - 1, {"Buffer"})
            <4>1. PICK a \in Nat : a = k + 1
                BY <1>2
            <4>2. PICK b \in Int : b = i - 1 /\ b <= n
                BY <1>2
            <4>3. Only(v, a, b, {"Buffer"})
                BY <4>1, <4>2, <3>1, <1>10
            <4> QED  BY <4>1, <4>2, <4>3
        <3>3. /\ k \in DOMAIN v.history /\ v.since < k /\ k < i
              /\ v.history[k][2][1] \in {"Chamber", "Aligner"}
            BY <3>1, <1>9, <1>8, <1>2
        <3> QED  BY <3>2, <3>3, <2>2, <2>3 DEF ReturnedToPort
    <2> QED  BY <2>1, <2>4, <2>5
<1>15. ASSUME to[1] = "Port",
              \/ w.mark = "Processed" /\ Only(w, w.since + 1, n, {"Buffer"})
              \/ MovedTo(w, {"Chamber", "Aligner"}, {"Buffer"})
       PROVE  ReturnedToPort(v)
    <2>1. n + 1 \in DOMAIN v.history /\ v.since < n + 1 /\ v.history[n + 1][2][1] = "Port"
        BY <1>15, <1>9, <1>8, <1>2
    <2>2. Only(v, (n + 1) + 1, Len(v.history), {"Port", "Buffer"})
        BY <1>9, <1>2 DEF Only
    <2>3. (n + 1) - 1 = n
        BY <1>2
    <2>4. CASE w.mark = "Processed" /\ Only(w, w.since + 1, n, {"Buffer"})
        <3>1. v.mark = "Processed" /\ Only(v, v.since + 1, (n + 1) - 1, {"Buffer"})
            <4>1. PICK a \in Nat : a = w.since + 1
                BY <1>8
            <4>2. n \in Int /\ n <= n
                BY <1>2
            <4>3. Only(v, a, n, {"Buffer"})
                BY <4>1, <4>2, <2>4, <1>10
            <4> QED  BY <4>1, <4>3, <2>3, <2>4, <1>8
        <3> QED  BY <3>1, <2>1, <2>2 DEF ReturnedToPort
    <2>5. CASE MovedTo(w, {"Chamber", "Aligner"}, {"Buffer"})
        <3>1. PICK k \in 1..n : /\ w.since < k /\ w.history[k][2][1] \in {"Chamber", "Aligner"}
                                /\ Only(w, k + 1, n, {"Buffer"})
            BY <2>5, <1>9 DEF MovedTo
        <3>2. Only(v, k + 1, (n + 1) - 1, {"Buffer"})
            <4>1. PICK a \in Nat : a = k + 1
                BY <1>2
            <4>2. n \in Int /\ n <= n
                BY <1>2
            <4>3. Only(v, a, n, {"Buffer"})
                BY <4>1, <4>2, <3>1, <1>10
            <4> QED  BY <4>1, <4>3, <2>3
        <3>3. /\ k \in DOMAIN v.history /\ v.since < k /\ k < n + 1
              /\ v.history[k][2][1] \in {"Chamber", "Aligner"}
            BY <3>1, <1>9, <1>8, <1>2
        <3> QED  BY <3>2, <3>3, <2>1, <2>2 DEF ReturnedToPort
    <2> QED  BY <1>15, <2>4, <2>5
<1>16. Explanation(w) /\ w.since + 1 \in Nat /\ Len(w.history) = n /\ Len(v.history) = n + 1
    BY <1>8, <1>9 DEF Explained
<1>17. Explanation(v)
    <2>1. CASE to[1] = "Robot"
        <3>1. v.state = "InTransit" /\ MovedTo(v, {"Robot"}, {"Port", "Buffer"})
            BY <2>1, <1>4, <1>12 DEF StateAfterMove
        <3> QED  BY <3>1 DEF Explanation
    <2>2. CASE to[1] \in {"Chamber", "Aligner"}
        <3>1. v.state = "AtProcess" /\ MovedTo(v, {"Chamber", "Aligner"}, {"Buffer"})
            <4>1. v.state = "AtProcess"
                BY <2>2, <1>4 DEF StateAfterMove
            <4> QED  BY <4>1, <2>2, <1>12
        <3> QED  BY <3>1 DEF Explanation
    <2>3. CASE to[1] \in {"Port", "Buffer"} /\ v.state = w.state
                 /\ w.state \in {"AtSource", "Rejected"}
        <3>1. Only(w, w.since + 1, n, {"Port", "Buffer"})
            BY <2>3, <1>16 DEF Explanation
        <3>2. Only(v, v.since + 1, n + 1, {"Port", "Buffer"})
            BY <3>1, <2>3, <1>11, <1>16, <1>8
        <3>3. /\ w.state = "AtSource" => w.mark = "None"
              /\ w.state = "Rejected" => w.mark = "Rejected"
            BY <2>3, <1>16 DEF Explanation
        <3> QED  BY <3>2, <3>3, <2>3, <1>16, <1>8 DEF Explanation
    <2>4. CASE to[1] \in {"Port", "Buffer"} /\ v.state = w.state /\ w.state = "InTransit"
        <3>1. MovedTo(w, {"Robot"}, {"Port", "Buffer"})
            BY <2>4, <1>16 DEF Explanation
        <3>2. MovedTo(v, {"Robot"}, {"Port", "Buffer"})
            BY <3>1, <2>4, <1>13
        <3> QED  BY <3>2, <2>4 DEF Explanation
    <2>5. CASE to[1] \in {"Port", "Buffer"} /\ v.state = w.state /\ w.state = "AtDest"
        <3>1. ReturnedToPort(w)
            BY <2>5, <1>16 DEF Explanation
        <3>2. ReturnedToPort(v)
            BY <3>1, <2>5, <1>14
        <3> QED  BY <3>2, <2>5 DEF Explanation
    <2>6. CASE to[1] = "Buffer" /\ v.state = w.state /\ w.state = "AtProcess"
        <3>1. MovedTo(w, {"Chamber", "Aligner"}, {"Buffer"})
            BY <2>6, <1>16 DEF Explanation
        <3>2. MovedTo(v, {"Chamber", "Aligner"}, {"Buffer"})
            BY <3>1, <2>6, <1>13
        <3> QED  BY <3>2, <2>6 DEF Explanation
    <2>7. CASE to[1] = "Buffer" /\ v.state = w.state /\ w.state = "Processed"
        <3>1. w.mark = "Processed" /\ Only(w, w.since + 1, n, {"Buffer"})
            BY <2>7, <1>16 DEF Explanation
        <3>2. Only(v, v.since + 1, n + 1, {"Buffer"})
            BY <3>1, <2>7, <1>11, <1>16, <1>8
        <3> QED  BY <3>1, <3>2, <2>7, <1>16, <1>8 DEF Explanation
    <2>8. CASE to[1] = "Port" /\ v.state = "AtDest" /\ w.state \in {"Processed", "AtProcess"}
        <3>1. \/ w.mark = "Processed" /\ Only(w, w.since + 1, n, {"Buffer"})
              \/ MovedTo(w, {"Chamber", "Aligner"}, {"Buffer"})
            BY <2>8, <1>16 DEF Explanation
        <3>2. ReturnedToPort(v)
            BY <3>1, <2>8, <1>15
        <3> QED  BY <3>2, <2>8 DEF Explanation
    <2>9. CASE to[1] \in {"Port", "Buffer"}
        <3>1. \/ v.state = w.state /\ w.state \in {"AtSource", "Rejected", "InTransit", "AtDest"}
              \/ to[1] = "Buffer" /\ v.state = w.state /\ w.state \in {"AtProcess", "Processed"}
              \/ to[1] = "Port" /\ v.state = "AtDest" /\ w.state \in {"Processed", "AtProcess"}
            BY <2>9, <1>1, <1>4 DEF StateAfterMove, SubstrateState
        <3> QED  BY <3>1, <2>9, <2>3, <2>4, <2>5, <2>6, <2>7, <2>8
    <2> QED  BY <2>1, <2>2, <2>9, <1>3 DEF LocationType
<1>18. v.since <= Len(v.history)
    BY <1>8, <1>9, <1>2
<1> QED  BY <1>6, <1>7, <1>17, <1>18 DEF Explained

\* A mark changes the state and leaves the history.
LEMMA MarkExplained ==
    ASSUME NEW w \in Wafers, Explained(w), NEW mark \in {"Processed", "Rejected"}, NEW v,
           v = [w EXCEPT !.state = mark, !.mark = mark, !.since = Len(w.history)]
    PROVE  v \in Wafers /\ Explained(v)
<1>1. /\ v.history = w.history /\ v.location = w.location
      /\ v.state = mark /\ v.mark = mark /\ v.since = Len(v.history)
    BY DEF Wafers
<1>2. Len(w.history) \in Nat /\ DOMAIN w.history = 1..Len(w.history)
    <2>1. w.history \in Seq(Location \X Location)
        BY DEF Wafers
    <2> QED  BY <2>1
<1>3. v \in Wafers
    BY <1>2 DEF Wafers, SubstrateState
<1>4. ASSUME NEW types PROVE Only(v, v.since + 1, Len(v.history), types)
    BY <1>1, <1>2 DEF Only
<1>5. Explanation(v)
    BY <1>1, <1>4 DEF Explanation
<1>6. IsPath(v)
    BY <1>1 DEF Explained, IsPath
<1>7. v.since <= Len(v.history)
    BY <1>1, <1>2
<1> QED  BY <1>3, <1>5, <1>6, <1>7 DEF Explained

LEMMA RegisterExplained ==
    ASSUME NEW slot \in Slots, NEW v,
           v = [state |-> "AtSource", location |-> <<"Port", slot>>, history |-> <<>>,
                mark |-> "None", since |-> 0]
    PROVE  v \in Wafers /\ Explained(v)
<1>1. v \in Wafers
    <2>1. <<>> \in Seq(Location \X Location)
        OBVIOUS
    <2> QED  BY <2>1 DEF Wafers, SubstrateState, Location, LocationType
<1>2. DOMAIN v.history = {} /\ Len(v.history) = 0
    OBVIOUS
<1>3. Explanation(v) /\ IsPath(v)
    BY <1>2 DEF Explanation, Only, IsPath
<1> QED  BY <1>1, <1>2, <1>3 DEF Explained

LEMMA SubstrateStep ==
    ASSUME SubstrateInv, [SubstrateNext]_substrates
    PROVE  SubstrateInv'
<1>1. ASSUME NEW s \in Substrate, NEW v, v = Untracked \/ (v \in Wafers /\ Explained(v)),
             substrates' = [substrates EXCEPT ![s] = v]
      PROVE  SubstrateInv'
    <2>1. substrates'[s] = v /\ \A x \in Substrate : x # s => substrates'[x] = substrates[x]
        BY <1>1 DEF SubstrateInv, SubstrateTypeOK
    <2>2. SubstrateTypeOK'
        BY <1>1 DEF SubstrateInv, SubstrateTypeOK
    <2> QED  BY <1>1, <2>1, <2>2 DEF SubstrateInv
<1>2. ASSUME NEW s \in Substrate, NEW slot \in Slots, RegisterSubstrate(s, slot)
      PROVE  SubstrateInv'
    BY <1>1, <1>2, RegisterExplained DEF RegisterSubstrate
<1>3. ASSUME NEW s \in Substrate, NEW to \in Location, MoveSubstrate(s, to)
      PROVE  SubstrateInv'
    <2> DEFINE w == substrates[s]
               v == [w EXCEPT !.location = to, !.history = Append(@, <<w.location, to>>),
                              !.state = StateAfterMove(@, to[1])]
    <2>1. w \in Wafers /\ Explained(w)
        BY <1>3, TrackedIsWafer DEF MoveSubstrate, SubstrateInv
    <2>2. substrates' = [substrates EXCEPT ![s] = v]
        BY <1>3 DEF MoveSubstrate, SubstrateInv, SubstrateTypeOK
    <2>3. v \in Wafers /\ Explained(v)
        BY <2>1, MoveExplained
    <2> HIDE DEF v, w
    <2> QED  BY <2>2, <2>3, <1>1
<1>4. ASSUME NEW s \in Substrate, MarkProcessed(s) \/ MarkRejected(s)
      PROVE  SubstrateInv'
    <2>1. PICK mark \in {"Processed", "Rejected"} : Mark(s, mark)
        BY <1>4 DEF MarkProcessed, MarkRejected
    <2> DEFINE w == substrates[s]
               v == [w EXCEPT !.state = mark, !.mark = mark, !.since = Len(w.history)]
    <2>2. w \in Wafers /\ Explained(w)
        BY <2>1, TrackedIsWafer DEF Mark, SubstrateInv
    <2>3. substrates' = [substrates EXCEPT ![s] = v]
        BY <2>1 DEF Mark, SubstrateInv, SubstrateTypeOK
    <2>4. v \in Wafers /\ Explained(v)
        BY <2>2, MarkExplained
    <2> HIDE DEF v, w
    <2> QED  BY <2>3, <2>4, <1>1
<1>5. ASSUME NEW s \in Substrate, RemoveSubstrate(s)
      PROVE  SubstrateInv'
    BY <1>1, <1>5 DEF RemoveSubstrate
<1>6. CASE UNCHANGED substrates
    BY <1>6 DEF SubstrateInv, SubstrateTypeOK
<1>7. CASE SubstrateNext
    BY <1>7, <1>2, <1>3, <1>4, <1>5, Zenon DEF SubstrateNext
<1> QED  BY <1>6, <1>7

LEMMA SubstrateInitInv == SubstrateInit => SubstrateInv
    BY DEF SubstrateInit, SubstrateInv, SubstrateTypeOK

LEMMA SubstrateInvariant == SubstrateSpec => []SubstrateInv
    BY SubstrateInitInv, SubstrateStep, PTL DEF SubstrateSpec

\* The history of a wafer is a path to where it is, and its movements since
\* the last mark explain which of the six states the tracker reports, for any
\* number of wafers, slots and moves (MoveSubstrate, MarkProcessed,
\* MarkRejected and RegisterSubstrate of substrate.go).
THEOREM HistoryExplains == SubstrateSpec => []HistoryExplainsState
<1>1. SubstrateInv => HistoryExplainsState
    BY DEF SubstrateInv, HistoryExplainsState, Explained
<1> QED  BY SubstrateInvariant, <1>1, PTL

(***************************************************************************)
(* Equipment performance.  What has been stored in the map is the time up  *)
(* to the start of the current state; Total is the sum over a map.         *)
(***************************************************************************)

At(f, s) == IF s \in EPTStates THEN f[s] ELSE 0

Total(f) ==
    At(f, "Idle") + At(f, "Busy") + At(f, "Blocked") + At(f, "BusyAndBlocked")
    + At(f, "StandbyScheduled") + At(f, "StandbyUnscheduled") + At(f, "EngScheduled")
    + At(f, "EngUnscheduled") + At(f, "DownScheduled") + At(f, "DownUnscheduled")
    + At(f, "NonScheduled")

EPTInv ==
    /\ EPTTypeOK
    /\ Total(durations) = stateStart - origin
    /\ defectCount <= unitCount

LEMMA AtTyped ==
    ASSUME NEW f \in [EPTStates -> Int]
    PROVE  \A s : At(f, s) \in Int
    BY DEF At

\* Time added to one entry is added to the sum.
LEMMA TotalAdds ==
    ASSUME NEW f \in [EPTStates -> Int], NEW u \in EPTStates, NEW x \in Int,
           NEW g, g = [f EXCEPT ![u] = @ + x]
    PROVE  Total(g) = Total(f) + x
<1> DEFINE Here(s) == IF s = u THEN x ELSE 0
<1>1. ASSUME NEW s
      PROVE  At(f, s) \in Int /\ Here(s) \in Int /\ At(g, s) = At(f, s) + Here(s)
    BY DEF At
<1>2. Here("Idle") + Here("Busy") + Here("Blocked") + Here("BusyAndBlocked")
        + Here("StandbyScheduled") + Here("StandbyUnscheduled") + Here("EngScheduled")
        + Here("EngUnscheduled") + Here("DownScheduled") + Here("DownUnscheduled")
        + Here("NonScheduled") = x
    <2>1. u \in EPTState
        BY EPTAssumption
    <2> QED  BY <2>1 DEF EPTState
<1> HIDE DEF Here
<1>3. /\ At(g, "Idle") = At(f, "Idle") + Here("Idle")
      /\ At(g, "Busy") = At(f, "Busy") + Here("Busy")
      /\ At(g, "Blocked") = At(f, "Blocked") + Here("Blocked")
      /\ At(g, "BusyAndBlocked") = At(f, "BusyAndBlocked") + Here("BusyAndBlocked")
      /\ At(g, "StandbyScheduled") = At(f, "StandbyScheduled") + Here("StandbyScheduled")
      /\ At(g, "StandbyUnscheduled") = At(f, "StandbyUnscheduled") + Here("StandbyUnscheduled")
      /\ At(g, "EngScheduled") = At(f, "EngScheduled") + Here("EngScheduled")
      /\ At(g, "EngUnscheduled") = At(f, "EngUnscheduled") + Here("EngUnscheduled")
      /\ At(g, "DownScheduled") = At(f, "DownScheduled") + Here("DownScheduled")
      /\ At(g, "DownUnscheduled") = At(f, "DownUnscheduled") + Here("DownUnscheduled")
      /\ At(g, "NonScheduled") = At(f, "NonScheduled") + Here("NonScheduled")
    BY <1>1
<1>4. \A s : At(f, s) \in Int /\ Here(s) \in Int
    BY <1>1
<1> QED  BY <1>2, <1>3, <1>4 DEF Total

\* An entry is at most the sum.
LEMMA TotalBounds ==
    ASSUME NEW f \in [EPTStates -> Nat]
    PROVE  \A u \in EPTStates : f[u] <= Total(f)
<1>1. \A s : At(f, s) \in Nat
    BY DEF At
<1>2. \A u \in EPTStates : u \in EPTState /\ f[u] = At(f, u)
    BY EPTAssumption DEF At
<1>3. ASSUME NEW u \in EPTState PROVE At(f, u) <= Total(f)
    BY <1>1 DEF Total, EPTState
<1> QED  BY <1>2, <1>3

LEMMA EPTInitInv == EPTInit => EPTInv
<1> SUFFICES ASSUME EPTInit PROVE EPTInv
    OBVIOUS
<1>1. \A s : At(durations, s) = 0
    BY DEF EPTInit, At
<1>2. EPTTypeOK
    BY EPTAssumption DEF EPTInit, EPTTypeOK
<1> QED  BY <1>1, <1>2 DEF EPTInv, EPTInit, Total

LEMMA EPTStep ==
    ASSUME EPTInv, [EPTNext]_eptVars
    PROVE  EPTInv'
<1>0. /\ now \in Nat /\ origin \in Nat /\ stateStart \in Nat /\ unitCount \in Nat /\ defectCount \in Nat
      /\ now <= MaxTime /\ origin <= now /\ stateStart <= now /\ MaxTime \in Nat /\ MaxUnits \in Nat
      /\ state \in EPTStates /\ durations \in [EPTStates -> Nat]
    BY EPTAssumption DEF EPTInv, EPTTypeOK
<1>1. CASE Tick
    BY <1>1, <1>0 DEF Tick, EPTInv, EPTTypeOK
<1>2. CASE Reset
    <2>1. \A s : At(durations', s) = 0
        BY <1>2 DEF Reset, At
    <2>2. Total(durations') = 0
        BY <2>1 DEF Total
    <2>3. EPTTypeOK'
        BY <1>2, <1>0, EPTAssumption DEF Reset, EPTTypeOK
    <2> QED  BY <1>2, <1>0, <2>2, <2>3 DEF Reset, EPTInv
<1>3. ASSUME NEW s \in EPTStates, SetState(s) PROVE EPTInv'
    <2>1. /\ durations' = [durations EXCEPT ![state] = @ + (now - stateStart)]
          /\ state' = s /\ stateStart' = now
          /\ now' = now /\ origin' = origin /\ unitCount' = unitCount /\ defectCount' = defectCount
        BY <1>3 DEF SetState
    <2>2. Total(durations') = Total(durations) + (now - stateStart)
        <3> DEFINE x == now - stateStart
        <3>1. x \in Int /\ durations \in [EPTStates -> Int]
            BY <1>0
        <3>2. durations' = [durations EXCEPT ![state] = @ + x]
            BY <2>1
        <3> HIDE DEF x
        <3>3. Total(durations') = Total(durations) + x
            BY <1>0, <3>1, <3>2, TotalAdds, Zenon
        <3> QED  BY <3>3 DEF x
    <2>3. Total(durations') = stateStart' - origin'
        BY <2>1, <2>2, <1>0 DEF EPTInv
    <2>4. durations' \in [EPTStates -> Nat]
        BY <2>1, <1>0
    <2>5. \A u \in EPTStates : durations'[u] <= MaxTime
        <3>1. Total(durations') <= MaxTime /\ Total(durations') \in Int
            BY <2>1, <2>3, <1>0
        <3>2. \A u \in EPTStates : durations'[u] <= Total(durations') /\ durations'[u] \in Nat
            BY <2>4, TotalBounds
        <3> QED  BY <3>1, <3>2, <1>0
    <2>6. EPTTypeOK'
        BY <2>1, <2>4, <2>5, <1>0 DEF EPTTypeOK, EPTInv
    <2> QED  BY <2>1, <2>3, <2>6 DEF EPTInv
<1>4. ASSUME NEW d \in BOOLEAN, RecordUnit(d) PROVE EPTInv'
    BY <1>4, <1>0 DEF RecordUnit, EPTInv, EPTTypeOK
<1>5. CASE UNCHANGED eptVars
    BY <1>5 DEF eptVars, EPTInv, EPTTypeOK
<1> QED  BY <1>1, <1>2, <1>3, <1>4, <1>5 DEF EPTNext

LEMMA EPTInvariant == EPTSpec => []EPTInv
    BY EPTInitInv, EPTStep, PTL DEF EPTSpec

\* The durations the tracker reports.
LEMMA ElapsedTotal ==
    ASSUME EPTInv
    PROVE  /\ \A s : Elapsed(s) \in Nat
           /\ \A s : s \notin EPTStates => Elapsed(s) = 0
           /\ TimeIn(EPTStates) = now - origin
<1>0. /\ now \in Nat /\ origin \in Nat /\ stateStart \in Nat /\ stateStart <= now
      /\ state \in EPTStates /\ durations \in [EPTStates -> Nat]
    BY EPTAssumption DEF EPTInv, EPTTypeOK
<1>1. StateDurations \in [EPTStates -> Nat]
    BY <1>0 DEF StateDurations
<1>2. \A s : Elapsed(s) = At(StateDurations, s)
    BY DEF Elapsed, At
<1>3. TimeIn(EPTStates) = Total(StateDurations)
    <2>1. \A s : (IF s \in EPTStates THEN Elapsed(s) ELSE 0) = At(StateDurations, s)
        BY DEF Elapsed, At
    <2> QED  BY <2>1 DEF TimeIn, Total
<1>4. Total(StateDurations) = Total(durations) + (now - stateStart)
    <2> DEFINE x == now - stateStart
    <2>1. x \in Int /\ durations \in [EPTStates -> Int]
        BY <1>0
    <2>2. StateDurations = [durations EXCEPT ![state] = @ + x]
        BY DEF StateDurations
    <2> HIDE DEF x
    <2>3. Total(StateDurations) = Total(durations) + x
        BY <1>0, <2>1, <2>2, TotalAdds, Zenon
    <2> QED  BY <2>3 DEF x
<1>5. TimeIn(EPTStates) = now - origin
    BY <1>0, <1>3, <1>4 DEF EPTInv
<1>6. \A s : Elapsed(s) \in Nat /\ (s \notin EPTStates => Elapsed(s) = 0)
    BY <1>1 DEF Elapsed
<1> QED  BY <1>5, <1>6

\* The durations add up to the time since the tracker was created or reset
\* and the factors of OEE are between 0 and 1, for any set of states in use,
\* any clock and any number of units (SetState, RecordUnit, Reset,
\* StateDurations and OEE of ept.go).
THEOREM OEEStaysConsistent == EPTSpec => []OEEConsistent
<1>1. EPTInv => OEEConsistent
    <2> SUFFICES ASSUME EPTInv PROVE OEEConsistent
        OBVIOUS
    <2> DEFINE scheduled == TimeIn(EPTStates) - StateDurations["NonScheduled"]
               available == TimeIn(isAvailable)
               productive == TimeIn(isProductive)
    <2>0. /\ \A s : Elapsed(s) \in Nat
          /\ \A s : s \notin EPTStates => Elapsed(s) = 0
          /\ TimeConserved
        BY ElapsedTotal DEF TimeConserved
    <2>1. StateDurations["NonScheduled"] = Elapsed("NonScheduled")
        BY EPTAssumption DEF Elapsed
    <2>2. TimeIn(EPTStates) = Elapsed("Idle") + Elapsed("Busy") + Elapsed("Blocked")
            + Elapsed("BusyAndBlocked") + Elapsed("StandbyScheduled")
            + Elapsed("StandbyUnscheduled") + Elapsed("EngScheduled") + Elapsed("EngUnscheduled")
            + Elapsed("DownScheduled") + Elapsed("DownUnscheduled") + Elapsed("NonScheduled")
        <3>1. \A s : (IF s \in EPTStates THEN Elapsed(s) ELSE 0) = Elapsed(s)
            BY <2>0
        <3> QED  BY <3>1 DEF TimeIn
    <2>3. available = Elapsed("Idle") + Elapsed("Busy") + Elapsed("Blocked")
                        + Elapsed("BusyAndBlocked")
        BY <2>0 DEF TimeIn, isAvailable
    <2>4. productive = Elapsed("Busy") + Elapsed("BusyAndBlocked")
        BY <2>0 DEF TimeIn, isProductive
    <2>5. /\ available \in Nat /\ productive \in Nat /\ scheduled \in Nat
          /\ productive <= available /\ available <= scheduled
        BY <2>0, <2>1, <2>2, <2>3, <2>4
    <2>6. unitCount \in Nat /\ defectCount \in Nat /\ defectCount <= unitCount
        BY EPTAssumption DEF EPTInv, EPTTypeOK
    <2>7. OEE = IF scheduled = 0
                THEN [availability |-> <<0, 1>>, performance |-> <<0, 1>>, quality |-> <<0, 1>>]
                ELSE [availability |-> <<available, scheduled>>,
                      performance |-> IF available > 0 THEN <<productive, available>> ELSE <<0, 1>>,
                      quality |-> IF unitCount > 0 THEN <<unitCount - defectCount, unitCount>>
                                                   ELSE <<1, 1>>]
        BY DEF OEE
    <2> HIDE DEF scheduled, available, productive
    <2>8. /\ OEE["availability"][1] >= 0 /\ OEE["availability"][1] <= OEE["availability"][2]
          /\ OEE["performance"][1] >= 0 /\ OEE["performance"][1] <= OEE["performance"][2]
          /\ OEE["quality"][1] >= 0 /\ OEE["quality"][1] <= OEE["quality"][2]
        BY <2>5, <2>6, <2>7
    <2> QED  BY <2>0, <2>8 DEF OEEConsistent
<1> QED  BY EPTInvariant, <1>1, PTL

(***************************************************************************)
(* The managers together: a step of one leaves the others alone.           *)
(***************************************************************************)

MaterialInv == CarrierInv /\ JobInv /\ SubstrateInv /\ EPTInv

\* Carriers, jobs, wafers and performance data have the shapes the code
\* declares for them, whichever manager is called.
THEOREM MaterialTypes == MCSpec => []TypeOK
<1>1. MCInit => MaterialInv
    BY CarrierInitInv, JobInitInv, SubstrateInitInv, EPTInitInv DEF MCInit, MaterialInv
<1>2. ASSUME MaterialInv, [MCNext]_vars
      PROVE  MaterialInv'
    <2>1. /\ [CarrierNext]_carrierVars /\ [JobNext]_jobVars
          /\ [SubstrateNext]_substrates /\ [EPTNext]_eptVars
        BY <1>2 DEF MCNext, vars
    <2> QED  BY <1>2, <2>1, CarrierStep, JobStep, SubstrateStep, EPTStep DEF MaterialInv
<1>3. MaterialInv => TypeOK
    BY DEF MaterialInv, CarrierInv, JobInv, SubstrateInv, EPTInv, TypeOK
<1> QED  BY <1>1, <1>2, <1>3, PTL DEF MCSpec
=============================================================================
