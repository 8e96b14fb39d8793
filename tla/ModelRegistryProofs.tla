------------------------- MODULE ModelRegistryProofs -------------------------
(***************************************************************************)
(* What holds of deployment and scoring for any models, scores, jobs and   *)
(* transactions, and of the circuit breaker that scoring goes through for  *)
(* any callers and any threshold.                                          *)
(***************************************************************************)
EXTENDS ModelRegistry, CircuitBreaker, FiniteSetTheorems, TLAPS

Job == [at : {"idle", "training", "best", "loaded", "selected"},
        model : Models \cup {None}, current : Models \cup {None},
        auto : BOOLEAN, alone : BOOLEAN, retries : 0..2]

Scoring == [at : {"new", "features", "scored", "flagged", "cleared", "confirmed", "released"},
            model : Models \cup {None}, score : 0..100, row : BOOLEAN]

Prediction == [txn : Txns, model : Models, score : ModelScores]

\* What a deployment knows: an automatic one has a model above the threshold; the model
\* to archive was in production, and still is unless somebody deployed meanwhile; and
\* while nobody did, the model is better than all there are.
JobInv(j) ==
  /\ job[j].at \in {"best", "loaded", "selected"} => job[j].model \in Models
  /\ job[j].auto => job[j].model \in Models /\ Auc[job[j].model] >= performance_threshold
  /\ job[j].at = "selected" =>
       /\ job[j].current \in Models /\ Production # {}
       /\ job[j].alone => job[j].current \in Production
  /\ job[j].at \in {"loaded", "selected"} /\ job[j].auto /\ job[j].alone /\ races = 0 =>
       \A m \in Production : Auc[m] < Auc[job[j].model]

\* A score that lets a large transaction pass came from a model.
Founded(t, score, stored) ==
  Amount[t] > 10000 /\ ~Flags(score) => \E p \in stored : p.txn = t

\* A verdict follows the score it was made from.
TxnInv(t) ==
  /\ txn[t].at = "features" => txn[t].model \in Models
  /\ txn[t].at \in {"flagged", "confirmed", "released"} => Flags(txn[t].score)
  /\ txn[t].at = "cleared" => ~Flags(txn[t].score)
  /\ txn[t].at \in {"scored", "cleared"} => Founded(t, txn[t].score, predictions)

IInv ==
  /\ TypeOK /\ OneUnlessRaced /\ predictions \subseteq Prediction
  /\ \A j \in Jobs : JobInv(j)
  /\ \A t \in Txns : TxnInv(t)

-----------------------------------------------------------------------------
\* The models in production are finitely many.
LEMMA ProductionSize ==
  /\ Production \subseteq Models /\ IsFiniteSet(Production)
  /\ Cardinality(Production) \in Nat /\ Cardinality(Production) <= Cardinality(Models)
  /\ Cardinality(Models) \in Nat
  <1>1. Production \subseteq Models
    BY DEF Production
  <1>2. IsFiniteSet(Models)
    BY RegistryAssumption
  <1> QED
    BY <1>1, <1>2, FS_Subset, FS_CardinalityType

\* A step of one job that neither deploys nor retires a model.
LEMMA JobStep ==
  ASSUME IInv, NEW j \in Jobs, NEW next \in Job, Becomes(j, next),
         status' \in [Models -> Statuses], Production' = Production,
         UNCHANGED <<races, scoring>>, JobInv(j)'
  PROVE  IInv'
  <1> USE DEF IInv, Becomes, scoring
  <1>1. TypeOK'
    BY DEF TypeOK, Job
  <1>2. OneUnlessRaced' /\ (predictions \subseteq Prediction)'
    BY DEF OneUnlessRaced, Prediction
  <1>3. ASSUME NEW i \in Jobs PROVE JobInv(i)'
    <2>1. CASE i # j
      <3>1. job'[i] = job[i]
        BY <2>1 DEF TypeOK
      <3> QED
        BY <3>1 DEF JobInv
    <2> QED
      BY <2>1
  <1>4. ASSUME NEW t \in Txns PROVE TxnInv(t)'
    BY DEF TxnInv
  <1> HIDE DEF Becomes, scoring
  <1> QED
    BY <1>1, <1>2, <1>3, <1>4

\* A step of one transaction; predictions are only added.
LEMMA TxnStep ==
  ASSUME IInv, NEW t \in Txns, NEW next \in Scoring, txn' = [txn EXCEPT ![t] = next],
         predictions \subseteq predictions', predictions' \subseteq Prediction,
         UNCHANGED <<registry, job>>, TxnInv(t)'
  PROVE  IInv'
  <1> USE DEF IInv, registry
  <1>1. TypeOK'
    BY DEF TypeOK, Scoring
  <1>2. OneUnlessRaced' /\ (predictions \subseteq Prediction)'
    BY DEF OneUnlessRaced, Prediction, Production
  <1>3. ASSUME NEW i \in Jobs PROVE JobInv(i)'
    BY DEF JobInv, Production
  <1>4. ASSUME NEW u \in Txns PROVE TxnInv(u)'
    <2>1. CASE u # t
      <3>1. txn'[u] = txn[u]
        BY <2>1 DEF TypeOK
      <3>2. ASSUME NEW score, Founded(u, score, predictions) PROVE Founded(u, score, predictions')
        BY <3>2 DEF Founded
      <3> QED
        BY <3>1, <3>2 DEF TxnInv
    <2> QED
      BY <2>1
  <1> HIDE DEF registry
  <1> QED
    BY <1>1, <1>2, <1>3, <1>4

\* The job that waits for nothing knows nothing.
LEMMA IdleJob ==
  /\ Idle \in Job /\ Idle.at = "idle" /\ ~Idle.auto
  /\ [Idle EXCEPT !.at = "training"] \in Job
  /\ \A m \in Models :
       /\ [Idle EXCEPT !.at = "loaded", !.model = m] \in Job
       /\ [Idle EXCEPT !.at = "best", !.model = m, !.auto = TRUE] \in Job
  <1>1. Idle \in Job
    BY DEF Idle, Job
  <1>2. Idle.at = "idle" /\ ~Idle.auto
    BY DEF Idle
  <1>3. [Idle EXCEPT !.at = "training"] \in Job
    BY <1>1 DEF Job
  <1>4. ASSUME NEW m \in Models
        PROVE  /\ [Idle EXCEPT !.at = "loaded", !.model = m] \in Job
               /\ [Idle EXCEPT !.at = "best", !.model = m, !.auto = TRUE] \in Job
    BY <1>1 DEF Job
  <1> QED
    BY <1>1, <1>2, <1>3, <1>4

\* A job that ends, or trains.
LEMMA EndJob ==
  ASSUME IInv, NEW j \in Jobs, NEW next \in Job, Becomes(j, next),
         next.at \in {"idle", "training"}, ~next.auto,
         status' \in [Models -> Statuses], Production' = Production,
         UNCHANGED <<races, scoring>>
  PROVE  IInv'
  <1>1. job'[j] = next
    BY DEF Becomes, IInv, TypeOK
  <1>2. JobInv(j)'
    BY <1>1 DEF JobInv
  <1> QED
    BY <1>2, JobStep

-----------------------------------------------------------------------------
\* Training adds a model that is ready: production stays as it is.
LEMMA TrainingInv ==
  ASSUME IInv, NEW j \in Jobs, Train(j) \/ StoreModel(j) \/ TrainingFails(j) \/ Lost(j)
  PROVE  IInv'
  <1>1. job[j] \in Job /\ status \in [Models -> Statuses]
    BY DEF IInv, TypeOK, Job
  <1>2. CASE Train(j)
    <2> DEFINE next == [Idle EXCEPT !.at = "training"]
    <2>1. next \in Job /\ next.at = "training" /\ ~next.auto
      BY IdleJob DEF Idle
    <2>2. Becomes(j, next) /\ UNCHANGED <<registry, scoring>>
      BY <1>2 DEF Train
    <2> HIDE DEF next
    <2> QED
      BY <1>1, <2>1, <2>2, EndJob DEF registry, Production
  <1>3. CASE StoreModel(j)
    <2>1. PICK m \in Models : status[m] = "absent" /\ status' = [status EXCEPT ![m] = "ready"]
      BY <1>3 DEF StoreModel
    <2>2. status' \in [Models -> Statuses] /\ Production' = Production
      BY <1>1, <2>1 DEF Statuses, Production
    <2> QED
      BY <1>3, <2>2, IdleJob, EndJob DEF StoreModel
  <1>4. CASE TrainingFails(j)
    <2> DEFINE next == IF job[j].retries < 2 THEN [job[j] EXCEPT !.retries = @ + 1] ELSE Idle
    <2>1. Becomes(j, next) /\ UNCHANGED <<registry, scoring>> /\ job[j].at = "training"
      BY <1>4 DEF TrainingFails
    <2>2. next \in Job /\ next.at \in {"idle", "training"}
      <3>1. job[j].retries \in 0..2 /\ job[j].at = "training"
        BY <1>1, <2>1 DEF Job
      <3>2. CASE job[j].retries < 2
        <4>1. job[j].retries + 1 \in 0..2
          BY <3>1, <3>2
        <4>2. [job[j] EXCEPT !.retries = job[j].retries + 1] \in Job
          BY <1>1, <4>1 DEF Job
        <4> QED
          BY <1>1, <3>1, <3>2, <4>2 DEF Job
      <3>3. CASE ~(job[j].retries < 2)
        BY <3>3, IdleJob
      <3> QED
        BY <3>2, <3>3
    <2>3. JobInv(j)'
      <3>1. job'[j] = next
        BY <2>1 DEF Becomes, IInv, TypeOK
      <3>2. next.auto => next.model \in Models /\ Auc[next.model] >= performance_threshold
        <4>1. CASE next = Idle
          BY <4>1, IdleJob
        <4>2. CASE next = [job[j] EXCEPT !.retries = @ + 1]
          BY <1>1, <4>2 DEF IInv, JobInv, Job
        <4> QED
          BY <4>1, <4>2
      <3> HIDE DEF next
      <3> QED
        BY <2>2, <3>1, <3>2 DEF JobInv
    <2> HIDE DEF next
    <2> QED
      BY <1>1, <2>1, <2>2, <2>3, JobStep DEF registry, Production
  <1>5. CASE Lost(j)
    BY <1>1, <1>5, IdleJob, EndJob DEF Lost, registry, Production
  <1> QED
    BY <1>2, <1>3, <1>4, <1>5

\* A deployment begins: what it knows of the model in production it has yet to ask.
LEMMA BeginInv == ASSUME IInv, NEW j \in Jobs, Ask(j) \/ FindBest(j) PROVE IInv'
  <1>1. status \in [Models -> Statuses] /\ UNCHANGED <<registry, scoring>>
    BY DEF IInv, TypeOK, Ask, FindBest
  <1>2. CASE Ask(j)
    <2>1. PICK m \in Models : Becomes(j, [Idle EXCEPT !.at = "loaded", !.model = m])
      BY <1>2 DEF Ask
    <2> DEFINE next == [Idle EXCEPT !.at = "loaded", !.model = m]
    <2>2. next \in Job /\ next.at = "loaded" /\ next.model = m /\ ~next.auto
      BY IdleJob DEF Idle
    <2>3. Becomes(j, next)
      BY <2>1
    <2> HIDE DEF next
    <2>4. job'[j] = next
      BY <2>3 DEF Becomes, IInv, TypeOK
    <2>5. JobInv(j)'
      BY <2>2, <2>4 DEF JobInv
    <2> QED
      BY <1>1, <2>2, <2>3, <2>5, JobStep DEF registry, Production
  <1>3. CASE FindBest(j)
    <2>1. PICK m \in Models :
            /\ Auc[m] >= performance_threshold
            /\ Becomes(j, [Idle EXCEPT !.at = "best", !.model = m, !.auto = TRUE])
      BY <1>3 DEF FindBest
    <2> DEFINE next == [Idle EXCEPT !.at = "best", !.model = m, !.auto = TRUE]
    <2>2. next \in Job /\ next.at = "best" /\ next.model = m
      BY IdleJob DEF Idle
    <2>3. Becomes(j, next)
      BY <2>1
    <2> HIDE DEF next
    <2>4. job'[j] = next
      BY <2>3 DEF Becomes, IInv, TypeOK
    <2>5. JobInv(j)'
      BY <2>1, <2>2, <2>4 DEF JobInv
    <2> QED
      BY <1>1, <2>2, <2>3, <2>5, JobStep DEF registry, Production
  <1> QED
    BY <1>2, <1>3

\* One model in production is the only one.
LEMMA OnlyOne ==
  ASSUME Cardinality(Production) <= 1, NEW m \in Production, NEW n \in Production
  PROVE  m = n
  <1>1. IsFiniteSet(Production) /\ Cardinality(Production) \in Nat
    BY ProductionSize
  <1>2. IsFiniteSet(Production \ {m}) /\ Cardinality(Production \ {m}) = Cardinality(Production) - 1
    BY <1>1, FS_RemoveElement
  <1>3. Cardinality(Production \ {m}) \in Nat
    BY <1>2, FS_CardinalityType
  <1>4. Cardinality(Production \ {m}) = 0
    BY <1>1, <1>2, <1>3
  <1>5. Production \ {m} = {}
    BY <1>2, <1>4, FS_EmptySet
  <1> QED
    BY <1>5

\* The model found is better than the one compared with, hence than all there are
\* unless deployments raced.
LEMMA CompareInv == ASSUME IInv, NEW j \in Jobs, Compare(j) PROVE IInv'
  <1>1. /\ job[j] \in Job /\ status \in [Models -> Statuses] /\ UNCHANGED <<registry, scoring>>
        /\ races \in Nat /\ job[j].at = "best" /\ job[j].model \in Models
    BY ProductionSize DEF IInv, TypeOK, Job, Compare, JobInv
  <1>2. PICK current \in Models \cup {None} :
          /\ First(current)
          /\ Becomes(j, IF current # None /\ Auc[current] >= Auc[job[j].model]
                        THEN Idle ELSE [job[j] EXCEPT !.at = "loaded"])
    BY DEF Compare
  <1>3. CASE current # None /\ Auc[current] >= Auc[job[j].model]
    BY <1>1, <1>2, <1>3, IdleJob, EndJob DEF registry, Production
  <1>4. CASE ~(current # None /\ Auc[current] >= Auc[job[j].model])
    <2> DEFINE next == [job[j] EXCEPT !.at = "loaded"]
    <2>1. /\ next \in Job /\ next.at = "loaded" /\ next.model = job[j].model
          /\ next.auto = job[j].auto /\ next.alone = job[j].alone
      BY <1>1 DEF Job
    <2>2. Becomes(j, next)
      BY <1>2, <1>4
    <2> HIDE DEF next
    <2>3. job'[j] = next
      BY <2>2 DEF Becomes, IInv, TypeOK
    <2>4. ASSUME races = 0, NEW m \in Production PROVE Auc[m] < Auc[job[j].model]
      <3>1. Cardinality(Production) <= 1
        BY <2>4 DEF IInv, OneUnlessRaced
      <3>2. current \in Production
        BY <1>2 DEF First
      <3>3. m = current /\ m \in Models /\ m # None
        BY <3>1, <3>2, OnlyOne, ProductionSize, RegistryAssumption
      <3>4. ~(Auc[m] >= Auc[job[j].model])
        BY <1>4, <3>3
      <3>5. Auc[m] \in 0..100 /\ Auc[job[j].model] \in 0..100
        BY <1>1, <3>3, RegistryAssumption
      <3>6. ASSUME NEW a \in 0..100, NEW b \in 0..100, ~(a >= b) PROVE a < b
        BY <3>6
      <3> QED
        BY ONLY <3>4, <3>5, <3>6
    <2>5. UNCHANGED <<races, status>> /\ Production' = Production
      BY <1>1 DEF registry, Production
    <2>6. /\ next.model \in Models
          /\ next.auto => Auc[next.model] >= performance_threshold
          /\ races = 0 => \A m \in Production : Auc[m] < Auc[next.model]
      BY <1>1, <2>1, <2>4 DEF IInv, JobInv
    <2>7. JobInv(j)'
      BY <2>1, <2>3, <2>5, <2>6 DEF JobInv
    <2> QED
      BY <1>1, <2>1, <2>2, <2>5, <2>7, JobStep
  <1> QED
    BY <1>3, <1>4

\* The model to archive is one of those in production.
LEMMA SelectInv == ASSUME IInv, NEW j \in Jobs, Select(j) PROVE IInv'
  <1>1. /\ job[j] \in Job /\ status \in [Models -> Statuses] /\ UNCHANGED <<registry, scoring>>
        /\ job[j].at = "loaded" /\ JobInv(j)
    BY DEF IInv, TypeOK, Job, Select
  <1>2. PICK current \in Models \cup {None} :
          /\ First(current)
          /\ Becomes(j, IF current = None THEN Idle
                        ELSE [job[j] EXCEPT !.at = "selected", !.current = current])
    BY DEF Select
  <1>3. CASE current = None
    BY <1>1, <1>2, <1>3, IdleJob, EndJob DEF registry, Production
  <1>4. CASE current # None
    <2> DEFINE next == [job[j] EXCEPT !.at = "selected", !.current = current]
    <2>1. /\ next \in Job /\ next.at = "selected" /\ next.model = job[j].model
          /\ next.auto = job[j].auto /\ next.alone = job[j].alone /\ next.current = current
      BY <1>1 DEF Job
    <2>2. Becomes(j, next)
      BY <1>2, <1>4
    <2> HIDE DEF next
    <2>3. job'[j] = next
      BY <2>2 DEF Becomes, IInv, TypeOK
    <2>4. current \in Production /\ current \in Models
      BY <1>2, <1>4, ProductionSize DEF First
    <2>5. UNCHANGED <<races, status>> /\ Production' = Production
      BY <1>1 DEF registry, Production
    <2>6. JobInv(j)'
      BY <1>1, <2>1, <2>3, <2>4, <2>5 DEF JobInv
    <2> QED
      BY <1>1, <2>1, <2>2, <2>5, <2>6, JobStep
  <1> QED
    BY <1>3, <1>4

\* What a deployment makes of production.
LEMMA Replaced ==
  ASSUME IInv, NEW j \in Jobs, Deploy(j)
  PROVE  /\ job[j].current \in Models /\ job[j].model \in Models
         /\ status' \in [Models -> Statuses]
         /\ Production' = (Production \ {job[j].current}) \cup {job[j].model}
  <1>1. /\ status \in [Models -> Statuses] /\ job[j].at = "selected"
        /\ job[j].current \in Models /\ job[j].model \in Models
    BY DEF IInv, TypeOK, JobInv, Deploy
  <1>2. status' = [[status EXCEPT ![job[j].current] = "archived"] EXCEPT ![job[j].model] = "deployed"]
    BY DEF Deploy, Replace, Retire
  <1>3. status' \in [Models -> Statuses]
    BY <1>1, <1>2 DEF Statuses
  <1>4. ASSUME NEW m \in Models
        PROVE  status'[m] = IF m = job[j].model THEN "deployed"
                            ELSE IF m = job[j].current THEN "archived" ELSE status[m]
    BY <1>1, <1>2
  <1>5. Production' = (Production \ {job[j].current}) \cup {job[j].model}
    BY <1>1, <1>4 DEF Production
  <1> QED
    BY <1>1, <1>3, <1>5

\* A deployment that nobody overlapped adds no model to production; any other adds
\* one at most, and is counted.
LEMMA DeployInv == ASSUME IInv, NEW j \in Jobs, Deploy(j) PROVE IInv'
  <1> DEFINE rest == Production \ {job[j].current}
  <1>1. /\ job[j] \in Job /\ races \in 0..Cardinality(Models) /\ job[j].at = "selected"
        /\ JobInv(j) /\ UNCHANGED scoring
        /\ races' = IF job[j].alone \/ races = Cardinality(Models) THEN races ELSE races + 1
    BY DEF IInv, TypeOK, Job, Deploy
  <1>2. /\ Cardinality(Production) <= 1 + races
        /\ IsFiniteSet(Production) /\ Cardinality(Production) \in Nat
        /\ Cardinality(Models) \in Nat
    BY ProductionSize DEF IInv, OneUnlessRaced
  <1>3. Production' = rest \cup {job[j].model} /\ status' \in [Models -> Statuses]
    BY Replaced
  <1>4. races' \in 0..Cardinality(Models) /\ races <= races'
    BY <1>1, <1>2
  <1>5. IsFiniteSet(rest) /\ Cardinality(rest) \in Nat
    BY <1>2, FS_Subset, FS_CardinalityType
  <1>6. Cardinality(Production') <= Cardinality(rest) + 1
    <2>1. Cardinality(rest \cup {job[j].model})
            = IF job[j].model \in rest THEN Cardinality(rest) ELSE Cardinality(rest) + 1
      BY <1>5, FS_AddElement
    <2> HIDE DEF rest
    <2> QED
      BY <1>3, <1>5, <2>1
  <1>7. OneUnlessRaced'
    <2>1. CASE job[j].alone
      <3>1. job[j].current \in Production
        BY <1>1, <2>1 DEF JobInv
      <3>2. Cardinality(rest) = Cardinality(Production) - 1
        BY <1>2, <3>1, FS_RemoveElement
      <3> HIDE DEF rest
      <3>3. races' = races
        BY <1>1, <2>1
      <3>4. Cardinality(Production)' = Cardinality(Production')
        OBVIOUS
      <3>5. Cardinality(Production') \in Nat
        BY <1>3, <1>5, FS_AddElement, FS_CardinalityType
      <3> QED
        BY <1>1, <1>2, <1>6, <3>2, <3>3, <3>5 DEF OneUnlessRaced
    <2>2. CASE ~job[j].alone
      <3>1. Cardinality(rest) <= Cardinality(Production)
        BY <1>2, FS_Subset
      <3>2. Production' \subseteq Models /\ IsFiniteSet(Models)
        BY RegistryAssumption DEF Production
      <3>3. Cardinality(Production') \in Nat /\ Cardinality(Production') <= Cardinality(Models)
        BY <3>2, FS_Subset, FS_CardinalityType
      <3> HIDE DEF rest
      <3> QED
        BY <1>1, <1>2, <1>5, <1>6, <2>2, <3>1, <3>3 DEF OneUnlessRaced
    <2> QED
      BY <2>1, <2>2
  <1>8. ASSUME NEW i \in Jobs
        PROVE  job'[i] \in Job /\ (i = j \/ job[i].at = "idle" => job'[i].at = "idle")
               /\ (i # j /\ job[i].at # "idle" =>
                     /\ ~job'[i].alone /\ job'[i].at = job[i].at /\ job'[i].auto = job[i].auto
                     /\ job'[i].model = job[i].model /\ job'[i].current = job[i].current)
               /\ (job'[i].auto => i # j /\ job[i].auto /\ job'[i].model = job[i].model)
    <2>1. job[i] \in Job
      BY DEF IInv, TypeOK, Job
    <2>2. job'[i] = IF i = j THEN Idle
                    ELSE IF job[i].at = "idle" THEN job[i]
                    ELSE [job[i] EXCEPT !.alone = FALSE]
      BY DEF Deploy
    <2>3. CASE i = j
      BY <2>2, <2>3, IdleJob
    <2>4. CASE i # j /\ job[i].at = "idle"
      BY <2>1, <2>2, <2>4
    <2>5. CASE i # j /\ job[i].at # "idle"
      <3>1. job'[i] = [job[i] EXCEPT !.alone = FALSE]
        BY <2>2, <2>5
      <3>2. job'[i] \in Job
        BY <2>1, <3>1 DEF Job
      <3>3. /\ ~job'[i].alone /\ job'[i].at = job[i].at /\ job'[i].auto = job[i].auto
            /\ job'[i].model = job[i].model /\ job'[i].current = job[i].current
        BY <2>1, <3>1 DEF Job
      <3> QED
        BY <2>5, <3>2, <3>3
    <2> QED
      BY <2>3, <2>4, <2>5
  <1>9. TypeOK'
    <2>1. job' \in [Jobs -> Job]
      <3>1. job' = [i \in Jobs |-> job'[i]]
        BY DEF Deploy
      <3> QED
        BY <1>8, <3>1
    <2> QED
      BY <1>1, <1>3, <1>4, <2>1 DEF IInv, TypeOK, Job, scoring
  <1>10. ASSUME NEW i \in Jobs PROVE JobInv(i)'
    <2>1. Production' # {}
      BY <1>3
    <2>2. JobInv(i)
      BY DEF IInv
    <2>3. CASE i = j \/ job[i].at = "idle"
      <3>1. job'[i].at = "idle"
        BY <1>8, <2>3
      <3>2. job'[i].auto => job[i].auto /\ job'[i].model = job[i].model
        BY <1>8
      <3> QED
        BY <2>2, <3>1, <3>2 DEF JobInv
    <2>4. CASE i # j /\ job[i].at # "idle"
      BY <1>8, <2>1, <2>2, <2>4 DEF JobInv
    <2> QED
      BY <2>3, <2>4
  <1>11. ASSUME NEW t \in Txns PROVE TxnInv(t)'
    BY <1>1 DEF IInv, TxnInv, scoring
  <1>12. (predictions \subseteq Prediction)'
    BY <1>1 DEF IInv, scoring, Prediction
  <1> QED
    BY <1>7, <1>9, <1>10, <1>11, <1>12 DEF IInv

-----------------------------------------------------------------------------
\* The heuristic answers with a score, and flags every large transaction.
LEMMA HeuristicScores ==
  ASSUME NEW t \in Txns
  PROVE  /\ Heuristic(Amount[t], Hour[t]) \in 0..100
         /\ Amount[t] > 10000 => Flags(Heuristic(Amount[t], Hour[t]))
  <1>1. Amount[t] \in Nat /\ Hour[t] \in 0..23
    BY RegistryAssumption
  <1>2. ASSUME NEW amount \in Nat, NEW hour \in 0..23
        PROVE  /\ Heuristic(amount, hour) \in 0..100
               /\ amount > 10000 => Heuristic(amount, hour) >= 70
    BY DEF Heuristic
  <1> QED
    BY <1>1, <1>2 DEF Flags, RISK_SCORE_THRESHOLD

\* A score is set: by a model, whose prediction is then stored, or by the heuristic.
LEMMA ScoredInv ==
  ASSUME IInv, NEW t \in Txns, NEW score \in 0..100, txn' = [txn EXCEPT ![t] = Scored(t, score)],
         predictions \subseteq predictions', predictions' \subseteq Prediction,
         UNCHANGED <<registry, job>>,
         Founded(t, score, predictions')
  PROVE  IInv'
  <1> DEFINE next == Scored(t, score)
  <1>1. txn[t] \in Scoring
    BY DEF IInv, TypeOK, Scoring
  <1>2. next \in Scoring /\ next.at = "scored" /\ next.score = score
    BY <1>1 DEF Scored, Scoring
  <1>3. txn' = [txn EXCEPT ![t] = next]
    OBVIOUS
  <1> HIDE DEF next
  <1>4. txn'[t] = next
    BY <1>3 DEF IInv, TypeOK
  <1>5. TxnInv(t)'
    BY <1>2, <1>4 DEF TxnInv
  <1> QED
    BY <1>2, <1>3, <1>5, TxnStep

\* Scoring, its verdict and its review.
LEMMA ScoringInv ==
  ASSUME IInv, NEW t \in Txns,
         ReadModel(t) \/ Predict(t) \/ CannotPredict(t) \/ Decide(t) \/ FallBack(t) \/ Review(t)
  PROVE  IInv'
  <1> DEFINE rule == Heuristic(Amount[t], Hour[t])
  <1>1. /\ txn[t] \in Scoring /\ txn \in [Txns -> Scoring] /\ TxnInv(t)
        /\ predictions \subseteq Prediction
    BY DEF IInv, TypeOK, Scoring
  <1>2. rule \in 0..100 /\ (Amount[t] > 10000 => Flags(rule))
    BY HeuristicScores
  <1>3. ASSUME txn[t].at = "features" PROVE Predictions(t) \subseteq Prediction
    BY <1>1, <1>3 DEF TxnInv, Predictions, Prediction
  <1>4. CASE ReadModel(t)
    <2>1. PICK m \in Models \cup {None} :
            txn' = [txn EXCEPT ![t] = IF m = None THEN Scored(t, rule)
                                      ELSE [txn[t] EXCEPT !.at = "features", !.model = m]]
      BY <1>4 DEF ReadModel
    <2>2. UNCHANGED <<registry, job, predictions>>
      BY <1>4 DEF ReadModel
    <2>3. CASE m = None
      <3>1. txn' = [txn EXCEPT ![t] = Scored(t, rule)]
        BY <2>1, <2>3
      <3>2. Founded(t, rule, predictions')
        BY <1>2 DEF Founded
      <3>3. predictions \subseteq predictions' /\ predictions' \subseteq Prediction
        BY <1>1, <2>2
      <3>4. UNCHANGED <<registry, job>> /\ rule \in 0..100
        BY <1>2, <2>2
      <3> HIDE DEF rule
      <3> QED
        BY <3>1, <3>2, <3>3, <3>4, ScoredInv
    <2>4. CASE m # None
      <3> DEFINE next == [txn[t] EXCEPT !.at = "features", !.model = m]
      <3>1. next \in Scoring /\ next.at = "features" /\ next.model \in Models
        BY <1>1, <2>4 DEF Scoring
      <3>2. txn' = [txn EXCEPT ![t] = next]
        BY <2>1, <2>4
      <3> HIDE DEF next
      <3>3. TxnInv(t)'
        BY <1>1, <3>1, <3>2 DEF TxnInv
      <3> QED
        BY <1>1, <2>2, <3>1, <3>2, <3>3, TxnStep
    <2> QED
      BY <2>3, <2>4
  <1>5. CASE Predict(t)
    <2>1. PICK p \in Predictions(t) :
            txn' = [txn EXCEPT ![t] = Scored(t, p.score)] /\ predictions' = predictions \cup {p}
      BY <1>5 DEF Predict
    <2>2. UNCHANGED <<registry, job>> /\ txn[t].at = "features"
      BY <1>5 DEF Predict
    <2>3. p \in Prediction /\ p.txn = t /\ p.score \in 0..100
      BY <1>3, <2>2, RegistryAssumption DEF Predictions, Prediction
    <2>4. /\ predictions \subseteq predictions' /\ predictions' \subseteq Prediction
          /\ Founded(t, p.score, predictions')
      BY <1>1, <2>1, <2>3 DEF Founded
    <2> QED
      BY <2>1, <2>2, <2>3, <2>4, ScoredInv
  <1>6. CASE CannotPredict(t)
    <2>1. PICK stored \in {{}} \cup {{p} : p \in Predictions(t)} : predictions' = predictions \cup stored
      BY <1>6 DEF CannotPredict
    <2>2. /\ UNCHANGED <<registry, job>> /\ txn[t].at = "features"
          /\ txn' = [txn EXCEPT ![t] = Scored(t, rule)]
      BY <1>6 DEF CannotPredict
    <2>3. stored \subseteq Prediction
      BY <1>3, <2>2
    <2>4. /\ predictions \subseteq predictions' /\ predictions' \subseteq Prediction
          /\ Founded(t, rule, predictions')
      BY <1>1, <1>2, <2>1, <2>3 DEF Founded
    <2>5. rule \in 0..100 /\ txn' = [txn EXCEPT ![t] = Scored(t, rule)] /\ UNCHANGED <<registry, job>>
      BY <1>2, <2>2
    <2> HIDE DEF rule
    <2> QED
      BY ONLY IInv, t \in Txns, <2>4, <2>5, ScoredInv
  <1>7. CASE Decide(t)
    <2> DEFINE verdict == IF Flags(txn[t].score) THEN "flagged" ELSE "cleared"
               next == [txn[t] EXCEPT !.at = verdict, !.row = TRUE]
    <2>1. UNCHANGED <<registry, job, predictions>> /\ txn[t].at = "scored"
      BY <1>7 DEF Decide
    <2>2. txn' = [txn EXCEPT ![t] = next]
      BY <1>1, <1>7 DEF Decide
    <2>3. verdict \in {"flagged", "cleared"} /\ (verdict = "flagged" <=> Flags(txn[t].score))
      OBVIOUS
    <2> HIDE DEF verdict
    <2>4. next \in Scoring /\ next.at = verdict /\ next.score = txn[t].score
      BY <1>1, <2>3 DEF Scoring
    <2> HIDE DEF next
    <2>5. TxnInv(t)'
      BY <1>1, <2>1, <2>2, <2>3, <2>4 DEF TxnInv
    <2> QED
      BY <1>1, <2>1, <2>2, <2>4, <2>5, TxnStep
  <1>8. CASE FallBack(t)
    <2>1. PICK row \in {FALSE, txn[t].at = "scored"} :
            txn' = [txn EXCEPT ![t].at = IF Flags(FALLBACK_RISK_SCORE) THEN "flagged" ELSE "cleared",
                               ![t].model = None,
                               ![t].score = FALLBACK_RISK_SCORE,
                               ![t].row = row]
      BY <1>8 DEF FallBack
    <2>2. UNCHANGED <<registry, job, predictions>>
      BY <1>8 DEF FallBack
    <2>3. Flags(FALLBACK_RISK_SCORE) /\ FALLBACK_RISK_SCORE = 80
      BY DEF Flags, FALLBACK_RISK_SCORE, RISK_SCORE_THRESHOLD
    <2> DEFINE next == [txn[t] EXCEPT !.at = "flagged", !.model = None, !.score = 80, !.row = row]
    <2>4. txn' = [txn EXCEPT ![t] = next]
      BY <1>1, <2>1, <2>3
    <2>5. row \in BOOLEAN
      BY <2>1
    <2>6. next \in Scoring
      <3>1. 80 \in 0..100 /\ None \in Models \cup {None}
        OBVIOUS
      <3> DEFINE held == [txn[t] EXCEPT !.at = "flagged", !.model = None]
      <3>2. held \in Scoring
        BY <1>1 DEF Scoring
      <3>3. next = [[held EXCEPT !.score = 80] EXCEPT !.row = row]
        OBVIOUS
      <3> HIDE DEF held
      <3> QED
        BY <2>5, <3>1, <3>2, <3>3 DEF Scoring
    <2>7. next.at = "flagged" /\ next.score = 80
      BY <1>1 DEF Scoring
    <2> HIDE DEF next
    <2>8. TxnInv(t)'
      BY <1>1, <2>3, <2>4, <2>7 DEF TxnInv
    <2> QED
      BY <1>1, <2>2, <2>4, <2>6, <2>8, TxnStep
  <1>9. CASE Review(t)
    <2>1. PICK fraud \in BOOLEAN :
            txn' = [txn EXCEPT ![t].at = IF fraud THEN "confirmed" ELSE "released"]
      BY <1>9 DEF Review
    <2>2. UNCHANGED <<registry, job, predictions>> /\ txn[t].at = "flagged"
      BY <1>9 DEF Review
    <2> DEFINE verdict == IF fraud THEN "confirmed" ELSE "released"
               next == [txn[t] EXCEPT !.at = verdict]
    <2>3. txn' = [txn EXCEPT ![t] = next]
      BY <1>1, <2>1
    <2>4. verdict \in {"confirmed", "released"}
      OBVIOUS
    <2> HIDE DEF verdict
    <2>5. next \in Scoring /\ next.at = verdict /\ next.score = txn[t].score
      BY <1>1, <2>4 DEF Scoring
    <2> HIDE DEF next
    <2>6. TxnInv(t)'
      BY <1>1, <2>2, <2>3, <2>4, <2>5 DEF TxnInv
    <2> QED
      BY <1>1, <2>2, <2>3, <2>5, <2>6, TxnStep
  <1> QED
    BY <1>4, <1>5, <1>6, <1>7, <1>8, <1>9

-----------------------------------------------------------------------------
\* The initial state satisfies the invariant: one model in production at most.
LEMMA InitInv == Init => IInv
  <1> SUFFICES ASSUME Init PROVE IInv
    OBVIOUS
  <1>1. PICK byHand \in {{}} \cup {{m} : m \in ByHand} :
          status = [m \in Models |-> IF m \in byHand THEN "deployed"
                                     ELSE IF m \in Trained THEN "ready" ELSE "absent"]
    BY DEF Init
  <1>2. /\ job = [j \in Jobs |-> Idle] /\ predictions = {} /\ races = 0
        /\ txn = [t \in Txns |-> [at |-> "new", model |-> None, score |-> 0, row |-> FALSE]]
    BY DEF Init
  <1>3. Cardinality(Production) <= 1 + races
    <2>1. Production \subseteq byHand
      BY <1>1 DEF Production
    <2>2. IsFiniteSet(byHand) /\ Cardinality(byHand) \in {0, 1}
      <3>1. CASE byHand = {}
        BY <3>1, FS_EmptySet
      <3>2. CASE \E m \in ByHand : byHand = {m}
        BY <3>2, FS_Singleton
      <3> QED
        BY <3>1, <3>2
    <2>3. Cardinality(Production) <= Cardinality(byHand)
      BY <2>1, <2>2, FS_Subset
    <2> QED
      BY <1>2, <2>2, <2>3, ProductionSize
  <1>4. TypeOK
    <2>1. status \in [Models -> Statuses]
      BY <1>1 DEF Statuses
    <2>2. job \in [Jobs -> Job]
      BY <1>2, IdleJob
    <2>3. txn \in [Txns -> Scoring]
      BY <1>2 DEF Scoring
    <2>4. races \in 0..Cardinality(Models)
      BY <1>2, ProductionSize
    <2> QED
      BY <2>1, <2>2, <2>3, <2>4 DEF TypeOK, Job, Scoring
  <1>5. ASSUME NEW j \in Jobs PROVE JobInv(j)
    <2>1. job[j].at = "idle" /\ ~job[j].auto
      BY <1>2, IdleJob
    <2> QED
      BY <2>1 DEF JobInv
  <1>6. ASSUME NEW t \in Txns PROVE TxnInv(t)
    BY <1>2 DEF TxnInv
  <1> QED
    BY <1>2, <1>3, <1>4, <1>5, <1>6 DEF IInv, OneUnlessRaced

\* Every step preserves the invariant.
LEMMA NextInv == IInv /\ [Next]_vars => IInv'
  <1> SUFFICES ASSUME IInv, [Next]_vars PROVE IInv'
    OBVIOUS
  <1>1. CASE Next
    BY <1>1, TrainingInv, BeginInv, CompareInv, SelectInv, DeployInv, ScoringInv DEF Next
  <1>2. CASE UNCHANGED vars
    BY <1>2 DEF vars, registry, scoring, IInv, TypeOK, OneUnlessRaced, JobInv, TxnInv,
                Founded, Production, Prediction
  <1> QED
    BY <1>1, <1>2

\* Only a deployment changes what is in production.
LEMMA OnlyDeployments ==
  ASSUME IInv, [Next]_vars, \A j \in Jobs : ~Deploy(j)
  PROVE  Production' = Production
  <1>1. CASE UNCHANGED status
    BY <1>1 DEF Production
  <1>2. ASSUME NEW j \in Jobs, StoreModel(j) PROVE Production' = Production
    <2>1. PICK m \in Models : status[m] = "absent" /\ status' = [status EXCEPT ![m] = "ready"]
      BY <1>2 DEF StoreModel
    <2> QED
      BY <2>1 DEF IInv, TypeOK, Production
  <1>3. ASSUME NEW j \in Jobs,
               \/ Train(j) \/ TrainingFails(j) \/ Ask(j) \/ FindBest(j) \/ Compare(j)
               \/ Select(j) \/ Lost(j)
        PROVE  UNCHANGED status
    BY <1>3 DEF Train, TrainingFails, Ask, FindBest, Compare, Select, Lost, registry
  <1>4. ASSUME NEW t \in Txns,
               \/ ReadModel(t) \/ Predict(t) \/ CannotPredict(t) \/ Decide(t) \/ FallBack(t)
               \/ Review(t)
        PROVE  UNCHANGED status
    BY <1>4 DEF ReadModel, Predict, CannotPredict, Decide, FallBack, Review, registry
  <1>5. CASE UNCHANGED vars
    BY <1>1, <1>5 DEF vars, registry
  <1> QED
    BY <1>1, <1>2, <1>3, <1>4, <1>5 DEF Next

-----------------------------------------------------------------------------
\* What every job knows, and what every score is founded on.
THEOREM Invariance == Spec => []IInv
  BY InitInv, NextInv, PTL DEF Spec

\* Each variable has its type.
THEOREM TypesKept == Spec => []TypeOK
  <1>1. IInv => TypeOK
    BY DEF IInv
  <1> QED
    BY <1>1, Invariance, PTL

\* However many deployments overlap, there are no more models in production than one
\* and one for each that committed after another (deployment.py:36-60).
THEOREM RacesBoundProduction == Spec => []OneUnlessRaced
  <1>1. IInv => OneUnlessRaced
    BY DEF IInv
  <1> QED
    BY <1>1, Invariance, PTL

\* A large transaction passes on the word of a model only (deployment.py:225-260).
THEOREM LargeAreScored == Spec => []LargeNeedsModel
  <1>1. IInv => LargeNeedsModel
    BY DEF IInv, TxnInv, Founded, LargeNeedsModel
  <1> QED
    BY <1>1, Invariance, PTL

\* No fraud is known that the score of its verdict missed (evaluation.py:95-187, 332-395).
THEOREM MissesAreHeld == Spec => []MissesAreAccidents
  <1>1. IInv => MissesAreAccidents
    <2> SUFFICES ASSUME IInv, NEW m \in Models, NEW p \in FalseNegatives(m) \cup get_false_negatives(m)
                 PROVE  txn[p.txn].score # p.score
      BY DEF MissesAreAccidents
    <2>1. p \in Prediction /\ p.score < 50 /\ txn[p.txn].at \in {"flagged", "confirmed"}
      BY DEF FalseNegatives, get_false_negatives, Low, Positive, is_fraud, IInv
    <2>2. p.txn \in Txns /\ p.score \in 0..100
      BY <2>1, RegistryAssumption DEF Prediction
    <2>3. txn[p.txn].score >= 70 /\ txn[p.txn].score \in 0..100
      BY <2>1, <2>2 DEF IInv, TypeOK, TxnInv, Flags, RISK_SCORE_THRESHOLD
    <2> QED
      BY <2>1, <2>2, <2>3
  <1> QED
    BY <1>1, Invariance, PTL

\* No step takes the last model out of production (deployment.py:41-60).
THEOREM ProductionNeverEmpties == Spec => ProductionStays
  <1>1. IInv /\ [Next]_vars => [Production # {} => Production' # {}]_vars
    <2> SUFFICES ASSUME IInv, [Next]_vars, Production # {} PROVE Production' # {}
      OBVIOUS
    <2>1. ASSUME NEW j \in Jobs, Deploy(j) PROVE Production' # {}
      BY <2>1, Replaced
    <2> QED
      BY <2>1, OnlyDeployments
  <1> QED
    BY <1>1, Invariance, PTL DEF Spec, ProductionStays

\* What an automatic deployment found good enough still is when it commits, and
\* still better than the model it replaces unless another one came between
\* (tasks/ml.py:96-202).
THEOREM AutoDeploysUpgrade == Spec => Upgrades
  <1> DEFINE Better == \A j \in Jobs : Deploy(j) /\ job[j].auto =>
                         /\ Auc[job[j].model] >= performance_threshold
                         /\ (job[j].alone /\ races = 0 => Auc[job[j].model] > Auc[job[j].current])
  <1>1. IInv => Better
    <2> SUFFICES ASSUME IInv, NEW j \in Jobs, Deploy(j), job[j].auto
                 PROVE  /\ Auc[job[j].model] >= performance_threshold
                        /\ (job[j].alone /\ races = 0 => Auc[job[j].model] > Auc[job[j].current])
      OBVIOUS
    <2>1. JobInv(j) /\ job[j].at = "selected"
      BY DEF IInv, Deploy
    <2>2. Auc[job[j].model] >= performance_threshold
      BY <2>1 DEF JobInv
    <2>3. ASSUME job[j].alone, races = 0 PROVE Auc[job[j].model] > Auc[job[j].current]
      <3>1. /\ Auc[job[j].current] < Auc[job[j].model]
            /\ job[j].current \in Models /\ job[j].model \in Models
        BY <2>1, <2>3 DEF JobInv
      <3>2. Auc[job[j].current] \in 0..100 /\ Auc[job[j].model] \in 0..100
        BY <3>1, RegistryAssumption
      <3>3. ASSUME NEW a \in 0..100, NEW b \in 0..100, a < b PROVE b > a
        BY <3>3
      <3> QED
        BY ONLY <3>1, <3>2, <3>3
    <2> QED
      BY <2>2, <2>3
  <1>2. IInv /\ [Next]_vars => [Better]_vars
    BY <1>1
  <1> QED
    BY <1>2, Invariance, PTL DEF Spec, Upgrades

-----------------------------------------------------------------------------
\* The circuit breaker in front of the inference: a component of its own.

\* The initial state satisfies the invariant: the threshold is not zero.
LEMMA BreakerInit == CBInit => CBInv
  <1>1. 0 \in 0..MaxFailures /\ 0 < Threshold
    BY ThresholdAssumption
  <1> QED
    BY <1>1 DEF CBInit, CBInv, CBTypeOK, Counted, OnlyStragglers, States

\* What Fail does: the circuit opens, and what is under way becomes a straggler, or
\* it was closed and stays closed.
LEMMA FailFacts ==
  ASSUME CBInv, NEW c \in Callers, Fail(c)
  PROVE  /\ failures' = failures + 1 /\ failures' \in 0..MaxFailures
         /\ call' = [call EXCEPT ![c] = "idle"] /\ healthy' = healthy
         /\ \/ /\ state' = "open" /\ cooled' = FALSE /\ failures' >= Threshold
               /\ stragglers' = {d \in Callers \ {c} : call[d] = "running"}
            \/ /\ state = "closed" /\ state' = "closed" /\ failures' < Threshold
               /\ stragglers' = stragglers \ {c} /\ cooled' = cooled
  <1> USE ThresholdAssumption DEF CBInv, CBTypeOK, Counted, States
  <1>1. /\ failures' = failures + 1 /\ failures' \in 0..MaxFailures
        /\ call' = [call EXCEPT ![c] = "idle"] /\ healthy' = healthy
    BY DEF Fail, End
  <1>2. CASE state = "half_open" \/ failures' >= Threshold
    BY <1>1, <1>2 DEF Fail
  <1>3. CASE ~(state = "half_open" \/ failures' >= Threshold)
    BY <1>1, <1>3 DEF Fail
  <1> QED
    BY <1>1, <1>2, <1>3

\* Every step keeps the counter, and who is under way during the cool-down.
LEMMA BreakerNext == CBInv /\ [CBNext]_circuit => CBInv'
  <1> SUFFICES ASSUME CBInv, [CBNext]_circuit PROVE CBInv'
    OBVIOUS
  <1> USE ThresholdAssumption DEF CBInv, CBTypeOK, Counted, OnlyStragglers, States
  <1>1. ASSUME NEW c \in Callers, Enter(c) PROVE CBInv'
    BY <1>1 DEF Enter
  <1>2. ASSUME NEW c \in Callers, Succeed(c) PROVE CBInv'
    BY <1>2 DEF Succeed, End
  <1>3. ASSUME NEW c \in Callers, Fail(c) PROVE CBInv'
    <2>1. /\ failures' \in 0..MaxFailures /\ healthy' \in BOOLEAN /\ cooled' \in BOOLEAN
          /\ call' \in [Callers -> {"idle", "running"}] /\ stragglers' \subseteq Callers
          /\ state' \in States
      BY <1>3, FailFacts
    <2>2. Counted'
      <3>1. CASE state' = "open" /\ failures' >= Threshold
        BY <2>1, <3>1
      <3>2. CASE state' = "closed" /\ failures' < Threshold
        BY <3>2
      <3> QED
        BY <1>3, <3>1, <3>2, FailFacts
    <2>3. OnlyStragglers'
      <3>1. SUFFICES ASSUME state' = "open", NEW d \in Callers, call'[d] = "running"
                     PROVE  d \in stragglers'
        OBVIOUS
      <3>2. d # c /\ call[d] = "running"
        BY <1>3, <3>1, FailFacts
      <3> QED
        BY <1>3, <3>1, <3>2, FailFacts
    <2> QED
      BY <2>1, <2>2, <2>3
  <1>4. ASSUME NEW c \in Callers, Cancel(c) PROVE CBInv'
    BY <1>4 DEF Cancel, End
  <1>5. CASE CoolDown
    BY <1>5 DEF CoolDown
  <1>6. CASE Recover
    BY <1>6 DEF Recover
  <1>7. CASE UNCHANGED circuit
    BY <1>7 DEF circuit
  <1>8. ASSUME NEW c \in Callers, Reject(c) PROVE UNCHANGED circuit
    BY <1>8 DEF Reject
  <1> HIDE DEF CBInv
  <1> QED
    BY <1>1, <1>2, <1>3, <1>4, <1>5, <1>6, <1>7, <1>8 DEF CBNext

\* During the cool-down no call starts, and a step that ends the open state is the
\* success of a straggler.
LEMMA CoolingStep == CBInv /\ [CBNext]_circuit => NoEarlyCall
  <1> SUFFICES ASSUME CBInv, [CBNext]_circuit, state = "open", ~cooled
               PROVE  \/ /\ state' = "open"
                         /\ \A c \in Callers : call'[c] = "running" => call[c] = "running"
                      \/ /\ state' = "closed"
                         /\ \E c \in stragglers : call[c] = "running" /\ call'[c] = "idle"
    BY DEF NoEarlyCall
  <1> USE DEF CBInv, CBTypeOK
  <1>1. ASSUME NEW c \in Callers, Enter(c) PROVE FALSE
    BY <1>1 DEF Enter
  <1>2. ASSUME NEW c \in Callers, Succeed(c)
        PROVE  /\ state' = "closed" /\ c \in stragglers
               /\ call[c] = "running" /\ call'[c] = "idle"
    BY <1>2 DEF Succeed, End, OnlyStragglers
  <1>3. ASSUME NEW c \in Callers, Fail(c)
        PROVE  /\ state' = "open"
               /\ \A d \in Callers : call'[d] = "running" => call[d] = "running"
    BY <1>3, FailFacts
  <1>4. ASSUME NEW c \in Callers, Cancel(c)
        PROVE  /\ state' = "open"
               /\ \A d \in Callers : call'[d] = "running" => call[d] = "running"
    BY <1>4 DEF Cancel, End
  <1>5. CASE CoolDown \/ Recover \/ (\E c \in Callers : Reject(c)) \/ UNCHANGED circuit
    BY <1>5 DEF CoolDown, Recover, Reject, circuit
  <1> QED
    BY <1>1, <1>2, <1>3, <1>4, <1>5 DEF CBNext

\* Callers fail fast while the cool-down runs; only the success of a call from before
\* the circuit opened ends it early (resilience.py:5-7, 99).
THEOREM CallersFailFast == CBSpec => FailsFast
  <1>1. CBInv /\ [CBNext]_circuit => [NoEarlyCall]_circuit
    BY CoolingStep
  <1> QED
    BY <1>1, BreakerInit, BreakerNext, PTL DEF CBSpec, FailsFast
==============================================================================
