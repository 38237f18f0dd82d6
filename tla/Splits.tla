------------------------------- MODULE Splits -------------------------------
(* Out-of-fold evaluation: the valid samples of several days are loaded,     *)
(* each fold's model is trained on what purge and embargo leave, and only    *)
(* that fold's test block is predicted by it.                                *)
(* Source: research/validation/*.py, research/pipeline.py (load_samples,     *)
(* train_and_evaluate)                                                       *)
EXTENDS Integers, Sequences, SequencesExt, FiniteSetsExt

CONSTANTS Plans,      \* [kind, horizon, embargo, splits, train, test, stride]: how to split
          Gaps,       \* time from one row to the next
          MaxRows, MaxLost, MinUsable, RowsPerFile \* bounds, and rows per day file

SplitAssumption ==
  /\ RowsPerFile \in Nat \ {0} /\ MinUsable \in Nat \ {0} /\ Gaps \subseteq Nat
  /\ \A p \in Plans :
       /\ p.horizon \in Nat /\ p.embargo \in Nat /\ p.stride \in Nat \ {0}
       /\ p.kind = "kfold" => p.splits \in Nat \ {0}
       /\ p.kind # "kfold" => p.train \in Nat /\ p.test \in Nat \ {0}

VARIABLES split, rows,  \* the plan; the rows written by the pipeline
          data,         \* the rows loaded for this horizon
          stage,        \* "writing", "folding", "done"
          fold, model   \* next fold; model[i]: rows the fold predicting i trained on
svars == <<split, rows, data, stage, fold, model>>

None == {0}
\* load_samples: of each file, every stride-th of the valid rows.
FileOf(i) == (i - 1) \div RowsPerFile
ValidUpTo(i) == {j \in 1..i : FileOf(j) = FileOf(i) /\ rows[j].valid}
Loaded == {i \in DOMAIN rows : rows[i].valid /\ (Cardinality(ValidUpTo(i)) - 1) % split.stride = 0}
\* A label that never resolved is null and drops its row for this horizon.
Usable == {i \in Loaded : rows[i].resolved}
InOrder(S) == [k \in 1..Cardinality(S) |-> rows[CHOOSE i \in S : Cardinality({j \in S : j <= i}) = k]]
Ts == [i \in DOMAIN data |-> data[i].ts]
Indices == DOMAIN data

\* PurgedKFold.split: contiguous blocks, the last one takes the remainder.
FoldSize == Len(data) \div split.splits
TestBlock(k) ==
  LET lo == (k - 1) * FoldSize + 1
      hi == IF k = split.splits THEN Len(data) ELSE k * FoldSize
  IN  lo..hi
\* Mutant: the label horizon is not added to the end of the test block.
PurgedBare(k) ==
  LET test == TestBlock(k) IN
  {i \in Indices \ test : Ts[i] + split.horizon < Ts[Min(test)]
                          \/ Ts[i] > Ts[Max(test)] + split.embargo}
Purged(k) ==
  LET test == TestBlock(k) IN
  {i \in Indices \ test : Ts[i] + split.horizon < Ts[Min(test)]
                          \/ Ts[i] > Ts[Max(test)] + split.horizon + split.embargo}

\* walk_forward: a rolling train window, then a disjoint test window.
WindowStart(k) == Ts[1] + (k - 1) * split.test
TrainEnd(k)    == WindowStart(k) + split.train
ForwardTrain(k) == {i \in Indices : WindowStart(k) <= Ts[i] /\ Ts[i] + split.horizon < TrainEnd(k)}
ForwardTest(k)  == {i \in Indices : TrainEnd(k) <= Ts[i] /\ Ts[i] < TrainEnd(k) + split.test}
HasFold(k) == IF split.kind = "kfold" THEN k <= split.splits
              ELSE TrainEnd(k) < Ts[Len(data)]

Train(k) == IF split.kind = "kfold" THEN Purged(k) ELSE ForwardTrain(k)
Test(k)  == IF split.kind = "kfold" THEN TestBlock(k) ELSE ForwardTest(k)
BothClasses(k) == {data[i].up : i \in Train(k)} = BOOLEAN

-----------------------------------------------------------------------------
Init == /\ split \in Plans /\ rows = <<>> /\ data = <<>> /\ stage = "writing"
        /\ fold = 1 /\ model = <<>>

WriteRow(d, valid, resolved, up) ==
  /\ stage = "writing" /\ Len(rows) < MaxRows
  /\ resolved \/ Cardinality({i \in DOMAIN rows : ~rows[i].resolved}) < MaxLost
  /\ rows' = Append(rows, [ts |-> d + (IF rows = <<>> THEN 0 ELSE Last(rows).ts),
                           valid |-> valid, resolved |-> resolved, up |-> up])
  /\ UNCHANGED <<split, data, stage, fold, model>>

\* Too few resolved labels: the horizon is skipped.
StartFolds ==
  /\ stage = "writing" /\ Cardinality(Usable) >= MinUsable
  /\ stage' = "folding" /\ data' = InOrder(Usable) /\ model' = [i \in DOMAIN data' |-> None]
  /\ UNCHANGED <<split, rows, fold>>

\* A fold whose training rows are of one class is left unpredicted.
RunFold ==
  /\ stage = "folding" /\ HasFold(fold)
  /\ model' = IF BothClasses(fold)
              THEN [i \in Indices |-> IF i \in Test(fold) THEN Train(fold) ELSE model[i]]
              ELSE model
  /\ fold' = fold + 1 /\ UNCHANGED <<split, rows, data, stage>>

Score == /\ stage = "folding" /\ ~HasFold(fold)
         /\ stage' = "done" /\ UNCHANGED <<split, rows, data, fold, model>>

Next == \/ \E d \in Gaps, valid, resolved, up \in BOOLEAN :
             (~valid => ~resolved) /\ (~resolved => ~up) /\ WriteRow(d, valid, resolved, up)
        \/ StartFolds \/ RunFold \/ Score
Spec == Init /\ [][Next]_svars

-----------------------------------------------------------------------------
LabelWindow(i) == Ts[i]..(Ts[i] + split.horizon)

(* No prediction comes from a model that saw its outcome: the label windows   *)
(* of the rows it trained on and its own share no moment, and a row that      *)
(* trained for an earlier block lies beyond the embargo.                      *)
NoSharedOutcome ==
  stage # "writing" =>
    \A i \in Indices : model[i] # None =>
      \A j \in model[i] :
        /\ LabelWindow(i) \cap LabelWindow(j) = {}
        /\ Ts[j] > Ts[i] => Ts[j] > Ts[i] + split.horizon + split.embargo

(* Each fold predicts its own rows once and no row twice: in k-fold every     *)
(* usable row is in exactly one block, walk-forward blocks never overlap and  *)
(* leave out only rows before the first and after the last boundary.          *)
BlocksPartition ==
  (stage = "done") =>
    LET ran == 1..(fold - 1)
        tested(i) == {k \in ran : i \in Test(k)}
    IN  \A i \in Indices :
          /\ Cardinality(tested(i)) <= 1
          /\ split.kind = "kfold" => tested(i) # {}
          /\ (split.kind = "forward" /\ Ts[i] >= TrainEnd(1) /\ Ts[i] < Ts[Len(data)]) => tested(i) # {}
=============================================================================
