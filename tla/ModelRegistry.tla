---------------------------- MODULE ModelRegistry ----------------------------
(***************************************************************************)
(* The fraud models: training stores them, administrators and a weekly     *)
(* task deploy them, and scoring asks the one in production.  Every job    *)
(* reads what it needs in queries of their own and writes blindly when it  *)
(* commits.  MLflow keeps the artefacts: it may fail, and what it logs     *)
(* decides nothing.                                                        *)
(***************************************************************************)
EXTENDS Integers, FiniteSets, Functions

CONSTANTS
  Models, Auc,      \* the models there can be, and auc_score * 100 of each
  Trained,          \* those trained before
  ByHand,           \* those an operator may have set DEPLOYED in the database
  Jobs,             \* the jobs that may be under way at once
  performance_threshold,
  Txns, Amount, Hour,  \* the transactions to score
  ModelScores,      \* what a model may answer (* 100)
  None

ASSUME RegistryAssumption ==
  /\ IsFiniteSet(Models) /\ None \notin Models
  /\ Auc \in [Models -> 0..100] /\ ModelScores \subseteq 0..100
  /\ Trained \subseteq Models /\ ByHand \subseteq Trained
  /\ Amount \in [Txns -> Nat] /\ Hour \in [Txns -> 0..23]

VARIABLES
  status,       \* MLModel.status of each model, "absent" without a row
  job,          \* what each job does, and what it has read
  txn,          \* each transaction: its scoring or verdict, and whether it has a
                \* row of TransactionRiskScore
  predictions,  \* rows of ModelPrediction: transaction, model, score
  races         \* history: commits during which another deployment had committed

registry == <<status, races>>
scoring  == <<txn, predictions>>
vars     == <<registry, job, scoring>>

Statuses == {"absent", "ready", "deployed", "archived"}

Production == {m \in Models : status[m] = "deployed"}

Idle == [at |-> "idle", model |-> None, current |-> None, auto |-> FALSE,
         alone |-> TRUE, retries |-> 0]

\* The code never sets the first model DEPLOYED: there is one only if an operator
\* put it there.
Init ==
  /\ \E byHand \in {{}} \cup {{m} : m \in ByHand} :
       status = [m \in Models |-> IF m \in byHand THEN "deployed"
                                  ELSE IF m \in Trained THEN "ready" ELSE "absent"]
  /\ job = [j \in Jobs |-> Idle]
  /\ txn = [t \in Txns |-> [at |-> "new", model |-> None, score |-> 0, row |-> FALSE]]
  /\ predictions = {} /\ races = 0

Becomes(j, next) == job' = [job EXCEPT ![j] = next]

---------------------------------------------------------------------------
\* Training

\* A run of train_fraud_detection_model, or of a retry after a failure.
Train(j) ==
  /\ job[j].at = "idle"
  /\ Becomes(j, [Idle EXCEPT !.at = "training"])
  /\ UNCHANGED <<registry, scoring>>

\* The model is committed, ready, after the dataset it was fitted to (a row that
\* nothing reads).  Its version is always 1: the query of the latest one raises.
StoreModel(j) ==
  /\ job[j].at = "training"
  /\ \E m \in Models :
       /\ status[m] = "absent"
       /\ status' = [status EXCEPT ![m] = "ready"]
  /\ Becomes(j, Idle)
  /\ UNCHANGED <<races, scoring>>

\* (mutant) One retry more than max_retries.
TrainingFailsAgain(j) ==
  /\ job[j].at = "training"
  /\ Becomes(j, IF job[j].retries <= 2 THEN [job[j] EXCEPT !.retries = @ + 1] ELSE Idle)
  /\ UNCHANGED <<registry, scoring>>

\* Too few rows, one class only, MLflow: the task retries twice.
TrainingFails(j) ==
  /\ job[j].at = "training"
  /\ Becomes(j, IF job[j].retries < 2 THEN [job[j] EXCEPT !.retries = @ + 1] ELSE Idle)
  /\ UNCHANGED <<registry, scoring>>

---------------------------------------------------------------------------
\* Deployment

\* An administrator asks for one model; it must be ready.
Ask(j) ==
  /\ job[j].at = "idle"
  /\ \E m \in Models :
       /\ status[m] = "ready"
       /\ Becomes(j, [Idle EXCEPT !.at = "loaded", !.model = m])
  /\ UNCHANGED <<registry, scoring>>

\* auto_deploy_best_model looks for the best of the ready models above the
\* threshold; without one it ends.
FindBest(j) ==
  /\ job[j].at = "idle"
  /\ LET ready == {m \in Models : status[m] = "ready" /\ Auc[m] >= performance_threshold}
     IN  \E best \in ready :
           /\ \A m \in ready : Auc[m] <= Auc[best]
           /\ Becomes(j, [Idle EXCEPT !.at = "best", !.model = best, !.auto = TRUE])
  /\ UNCHANGED <<registry, scoring>>

\* first(): one of those in production, in no order.
First(m) == IF Production = {} THEN m = None ELSE m \in Production

\* (mutant) An equally good model is deployed as well.
CompareLoosely(j) ==
  /\ job[j].at = "best"
  /\ \E current \in Models \cup {None} :
       /\ First(current)
       /\ Becomes(j, IF current # None /\ Auc[current] > Auc[job[j].model]
                     THEN Idle ELSE [job[j] EXCEPT !.at = "loaded"])
  /\ UNCHANGED <<registry, scoring>>

\* ... and it ends unless that one is better than the one in production.
\* deploy_model then finds the model in the session as FindBest loaded it, and does
\* not see what became of it.
Compare(j) ==
  /\ job[j].at = "best"
  /\ \E current \in Models \cup {None} :
       /\ First(current)
       /\ Becomes(j, IF current # None /\ Auc[current] >= Auc[job[j].model]
                     THEN Idle ELSE [job[j] EXCEPT !.at = "loaded"])
  /\ UNCHANGED <<registry, scoring>>

\* deploy_model reads the model to archive; without one it returns, and the model
\* asked for stays ready.
Select(j) ==
  /\ job[j].at = "loaded"
  /\ \E current \in Models \cup {None} :
       /\ First(current)
       /\ Becomes(j, IF current = None THEN Idle
                     ELSE [job[j] EXCEPT !.at = "selected", !.current = current])
  /\ UNCHANGED <<registry, scoring>>

Retire(m) == [status EXCEPT ![m] = "archived"]

\* (mutant) The model is set DEPLOYED, then the selected one ARCHIVED.
ReplaceBackwards(current, m) == [status EXCEPT ![m] = "deployed", ![current] = "archived"]

\* (mutant) The model in production is left as it is.
ReplaceKeeping(current, m) == [status EXCEPT ![m] = "deployed"]

\* The selected one is archived, then the model is deployed: they may be the same.
Replace(current, m) == [Retire(current) EXCEPT ![m] = "deployed"]

\* One transaction writes both rows, whatever they have become.  That the line
\* logged afterwards may raise, or a task fail, undoes nothing.
Deploy(j) ==
  /\ job[j].at = "selected"
  /\ status' = Replace(job[j].current, job[j].model)
  /\ races' = IF job[j].alone \/ races = Cardinality(Models) THEN races ELSE races + 1
  /\ job' = [i \in Jobs |-> IF i = j THEN Idle
                            ELSE IF job[i].at = "idle" THEN job[i]
                            ELSE [job[i] EXCEPT !.alone = FALSE]]
  /\ UNCHANGED scoring

\* The worker dies, a query or the commit fails: a task is delivered again.
Lost(j) ==
  /\ job[j].at # "idle"
  /\ Becomes(j, Idle)
  /\ UNCHANGED <<registry, scoring>>

---------------------------------------------------------------------------
\* Scoring

RISK_SCORE_THRESHOLD == 70
FALLBACK_RISK_SCORE  == 80

\* _fallback_prediction, with scores * 100.
Heuristic(amount, hour) ==
  LET base == IF amount > 10000 THEN 70
              ELSE IF amount > 5000 THEN 50
              ELSE IF amount > 1000 THEN 30 ELSE 10
      late == IF hour < 6 \/ hour > 22 THEN 10 ELSE 0
  IN  IF base + late > 90 THEN 90 ELSE base + late

\* (mutant) The score must exceed the threshold.
FlagsAbove(score) == score > RISK_SCORE_THRESHOLD

\* update_transaction_risk
Flags(score) == score >= RISK_SCORE_THRESHOLD

Scored(t, score) == [txn[t] EXCEPT !.at = "scored", !.model = None, !.score = score]

\* predict_fraud asks for the model in production; without one the heuristic scores.
ReadModel(t) ==
  /\ txn[t].at = "new"
  /\ \E m \in Models \cup {None} :
       /\ First(m)
       /\ txn' = [txn EXCEPT ![t] =
                    IF m = None THEN Scored(t, Heuristic(Amount[t], Hour[t]))
                    ELSE [@ EXCEPT !.at = "features", !.model = m]]
  /\ UNCHANGED <<registry, job, predictions>>

\* What the model may answer for the features extracted for t.
Predictions(t) == [txn : {t}, model : {txn[t].model}, score : ModelScores]

\* The model scores the features, and the prediction is committed.
Predict(t) ==
  /\ txn[t].at = "features"
  /\ \E p \in Predictions(t) :
       /\ txn' = [txn EXCEPT ![t] = Scored(t, p.score)]
       /\ predictions' = predictions \cup {p}
  /\ UNCHANGED <<registry, job>>

\* The model cannot be loaded or used, or what follows its prediction fails: the
\* heuristic scores, and the breaker is told of a success.
CannotPredict(t) ==
  /\ txn[t].at = "features"
  /\ txn' = [txn EXCEPT ![t] = Scored(t, Heuristic(Amount[t], Hour[t]))]
  /\ \E stored \in {{}} \cup {{p} : p \in Predictions(t)} :
       predictions' = predictions \cup stored
  /\ UNCHANGED <<registry, job>>

\* The row of the score and its verdict are committed.
Decide(t) ==
  /\ txn[t].at = "scored"
  /\ txn' = [txn EXCEPT ![t].at = IF Flags(txn[t].score) THEN "flagged" ELSE "cleared",
                        ![t].row = TRUE]
  /\ UNCHANGED <<registry, job, predictions>>

\* The circuit is open, or something after the prediction failed, with or without
\* the row: the fallback score holds the transaction.
FallBack(t) ==
  /\ txn[t].at \in {"new", "features", "scored"}
  /\ \E row \in {FALSE, txn[t].at = "scored"} :
       txn' = [txn EXCEPT ![t].at = IF Flags(FALLBACK_RISK_SCORE) THEN "flagged" ELSE "cleared",
                          ![t].model = None,
                          ![t].score = FALLBACK_RISK_SCORE,
                          ![t].row = row]
  /\ UNCHANGED <<registry, job, predictions>>

\* (mutant) The reviewer may decide on any transaction.
ReviewAny(t) ==
  /\ txn[t].at \in {"flagged", "cleared"} /\ txn[t].row
  /\ \E fraud \in BOOLEAN :
       txn' = [txn EXCEPT ![t].at = IF fraud THEN "confirmed" ELSE "released"]
  /\ UNCHANGED <<registry, job, predictions>>

\* A reviewer decides on a flagged transaction; one without a row is not found.
Review(t) ==
  /\ txn[t].at = "flagged" /\ txn[t].row
  /\ \E fraud \in BOOLEAN :
       txn' = [txn EXCEPT ![t].at = IF fraud THEN "confirmed" ELSE "released"]
  /\ UNCHANGED <<registry, job, predictions>>

---------------------------------------------------------------------------

Next ==
  \/ \E j \in Jobs :
       \/ Train(j) \/ StoreModel(j) \/ TrainingFails(j)
       \/ Ask(j) \/ FindBest(j) \/ Compare(j) \/ Select(j) \/ Deploy(j) \/ Lost(j)
  \/ \E t \in Txns :
       ReadModel(t) \/ Predict(t) \/ CannotPredict(t) \/ Decide(t) \/ FallBack(t) \/ Review(t)

Spec == Init /\ [][Next]_vars

---------------------------------------------------------------------------
\* Evaluation

\* prepare_training_dataset: what training takes for fraud.
is_fraud(t) == txn[t].at = "confirmed"

\* evaluate_model_performance: what evaluation takes for fraud.
Positive(t) == txn[t].at = "flagged"

Low(m) == {p \in predictions : p.model = m /\ p.score < 50}

\* _generate_confusion_matrix
FalseNegatives(m) == {p \in Low(m) : Positive(p.txn)}

\* The frauds m missed, as they are listed.
get_false_negatives(m) == {p \in Low(m) : is_fraud(p.txn)}

---------------------------------------------------------------------------
\* Properties

TypeOK ==
  /\ status \in [Models -> Statuses]
  /\ job \in [Jobs -> [at : {"idle", "training", "best", "loaded", "selected"},
                       model : Models \cup {None}, current : Models \cup {None},
                       auto : BOOLEAN, alone : BOOLEAN, retries : 0..2]]
  /\ txn \in [Txns -> [at : {"new", "features", "scored", "flagged", "cleared",
                             "confirmed", "released"},
                       model : Models \cup {None}, score : 0..100, row : BOOLEAN]]
  /\ races \in 0..Cardinality(Models)

\* Whatever jobs overlap, die or repeat each other, a bank that scores with a model
\* goes on having one: what a deployment archives may by then be the last model in
\* production, or the very model it deploys, and still one is left (deployment.py:41-60).
ProductionStays == [][Production # {} => Production' # {}]_vars

\* A deployment that ends, and is not lost, has put its model into production: "An
\* administrator can select a specific model by ID and deploy it using the
\* `/api/v1/ml/deploy` endpoint" (how_it_works.md:19).
DeploysTheModel ==
  [][\A j \in Jobs : (Select(j) \/ Deploy(j)) /\ job'[j].at = "idle" =>
       status'[job[j].model] = "deployed"]_vars

\* Deployments that never overlapped leave at most one model in production; each
\* that committed while another had since it began may leave one more, which
\* get_deployed_model then picks from in no order (deployment.py:36).
OneUnlessRaced == Cardinality(Production) <= 1 + races

\* An automatic deployment is never of a model below the threshold, and one that no
\* other overlapped replaces a model by a strictly better one.
Upgrades ==
  [][\A j \in Jobs : Deploy(j) /\ job[j].auto =>
       /\ Auc[job[j].model] >= performance_threshold
       /\ (job[j].alone /\ races = 0 => Auc[job[j].model] > Auc[job[j].current])]_vars

\* A transaction above 10 000 is let through only on the word of a model: the
\* heuristic's score for it is the threshold itself.
LargeNeedsModel ==
  \A t \in Txns : Amount[t] > 10000 /\ txn[t].at = "cleared" =>
    \E p \in predictions : p.txn = t

\* Nobody learns of a fraud the model in production cleared, for only what was held
\* is reviewed: evaluation counts a miss, and the list of missed frauds has one, only
\* where the scoring broke off and the transaction was held by another score.
MissesAreAccidents ==
  \A m \in Models : \A p \in FalseNegatives(m) \cup get_false_negatives(m) :
    txn[p.txn].score # p.score
=============================================================================
