---------------------------- MODULE TopicContents ----------------------------
(***************************************************************************)
(* What a topic run is made of: the labels of the cluster service, the     *)
(* clusters with their representatives, the names an LLM gives them, the   *)
(* rows that are stored and the answer that is built from them.  A run may *)
(* be worked on again after its rows were stored, while it is being read.  *)
(***************************************************************************)
EXTENDS Integers, Sequences, SequencesExt, FiniteSetsExt, FiniteSets, Functions

CONSTANTS Keywords,        \* the rows of the snapshot: a sequence of [nt, volume], no volume is Null
          Probability,     \* external: of each keyword in its cluster, the same in every attempt
          Labelings,       \* external: what the cluster service may answer, -1 is noise
          Names,           \* external: the names the LLM gives; "" is none
          ClusterRetries,         \* CLUSTER_RETRIES
          TopK, BatchClusters,
          MaxAttempts      \* bound on the attempts of the job

VARIABLES run,       \* the attempt: [attempt, phase, calls, labels, todo, namings], and the counts its row says
          rows,      \* topic_clusters and keyword_cluster_assignments, with the attempt that wrote them
          reader     \* GET topics: [clusters, assignments], NotRead before they are

tvars == <<run, rows, reader>>

Null == -1
None == "none"
NoCluster == <<0, Null>>
NotRead == [by |-> Null, rows |-> {}]
NotCounted == [clusters |-> Null, noise |-> Null]

-----------------------------------------------------------------------------
(* representatives.ts, topic-naming.postprocess.ts, assemble-assignments.ts *)

Members(labels, l) == {i \in DOMAIN labels : labels[i] = l}
ClusterLabels(labels) == SetToSortSeq({l \in Range(labels) : l >= 0}, <)
NoiseCount(labels) == Cardinality({i \in DOMAIN labels : labels[i] < 0})
SumVolumes(members) ==
  LET known == {i \in members : Keywords[i].volume # Null}
  IN IF known = {} THEN Null ELSE FoldSet(LAMBDA i, acc : acc + Keywords[i].volume, 0, known)
Representatives(members) ==
  LET ranked == SetToSortSeq(members, LAMBDA i, j : Probability[i] > Probability[j] \/ (Probability[i] = Probability[j] /\ i < j))
  IN [k \in 1..Min({TopK, Len(ranked)}) |-> Keywords[ranked[k]].nt]

\* A cluster is named by the LLM or by its first representative.
FallbackNaming(labels, l) == [name |-> Representatives(Members(labels, l))[1], degraded |-> TRUE]
\* The answer is read in the order of the batch; one of another length names nobody.
ReconcileClusterNamings(labels, batch, topics) ==
  [k \in DOMAIN batch |->
     IF Len(topics) # Len(batch) \/ topics[k] = "" THEN FallbackNaming(labels, batch[k])
     ELSE [name |-> topics[k], degraded |-> FALSE]]

AssembleClusterRecords(labels, namings) ==
  {[label |-> l, name |-> namings[l].name, volume |-> SumVolumes(Members(labels, l)), keywordCount |-> Cardinality(Members(labels, l)),
    representatives |-> Representatives(Members(labels, l))] : l \in {m \in Range(labels) : m >= 0}}
AssembleAssignments(labels) ==
  {[nt |-> Keywords[i].nt, label |-> IF labels[i] < 0 THEN Null ELSE labels[i], isNoise |-> labels[i] < 0] : i \in DOMAIN labels}

\* build-topics-response.ts: a keyword inherits the name of its cluster.
BuildTopicsResponse(clusters, assignments) ==
  [clusters |-> clusters,
   keywords |-> {[nt |-> x.nt, isNoise |-> x.isNoise,
                  topic |-> IF \E c \in clusters : c.id = x.clusterId THEN (CHOOSE c \in clusters : c.id = x.clusterId).name ELSE None] :
                   x \in assignments}]
\* topic.repository.ts: what adding a topic to a tracking list adds.
ExpandTopicToMembers(stored, name) ==
  {x.nt : x \in {y \in stored.assignments : \E c \in stored.clusters : c.name = name /\ c.id = y.clusterId}}

-----------------------------------------------------------------------------
NewAttempt(a) == [attempt |-> a, phase |-> "cluster", calls |-> 0, labels |-> <<>>, todo |-> <<>>, namings |-> <<>>, counts |-> NotCounted]
Init ==
  /\ run = NewAttempt(1)
  /\ rows = [by |-> 0, clusters |-> {}, assignments |-> {}]
  /\ reader = [clusters |-> NotRead, assignments |-> NotRead]

\* cluster.client.ts: a transient error is tried again, the last one is the end of the run (partial), and
\* an answer of another shape fails the attempt.
ClusterAgain ==
  /\ run.phase = "cluster" /\ run.calls < ClusterRetries
  /\ run' = [run EXCEPT !.calls = @ + 1]
  /\ UNCHANGED <<rows, reader>>
ClusteringUnavailable ==
  /\ run.phase = "cluster"
  /\ run' = [run EXCEPT !.phase = "partial", !.counts = [clusters |-> 0, noise |-> Len(Keywords)]]
  /\ UNCHANGED <<rows, reader>>
AttemptFails ==
  /\ run.phase \in {"cluster", "name", "persist", "stored"} /\ run.attempt < MaxAttempts
  /\ run' = NewAttempt(run.attempt + 1)
  /\ UNCHANGED <<rows, reader>>

Batches(labels) ==
  LET all == ClusterLabels(labels) IN
  [b \in 1..((Len(all) + BatchClusters - 1) \div BatchClusters) |->
     SubSeq(all, (b - 1) * BatchClusters + 1, Min({b * BatchClusters, Len(all)}))]
Cluster ==
  /\ run.phase = "cluster"
  /\ \E labels \in Labelings :
       run' = [run EXCEPT !.phase = "name", !.labels = labels, !.todo = Batches(labels), !.namings = [l \in {} |-> None]]
  /\ UNCHANGED <<rows, reader>>

Named(batch, topics) ==
  LET namings == ReconcileClusterNamings(run.labels, batch, topics)
  IN [l \in Range(batch) |-> namings[CHOOSE k \in DOMAIN batch : batch[k] = l]]
\* nameBatchResilient: refused, filtered and malformed answers are no answer; one cut off is asked for in halves.
NameBatch ==
  /\ run.phase = "name" /\ run.todo # <<>>
  /\ \E n \in {Len(Head(run.todo))} : \E topics \in UNION {[1..m -> Names] : m \in {0, n}} :
       run' = [run EXCEPT !.todo = Tail(@), !.namings = Named(Head(run.todo), topics) @@ @]
  /\ UNCHANGED <<rows, reader>>
NameHalves ==
  /\ run.phase = "name" /\ run.todo # <<>> /\ Len(Head(run.todo)) > 1
  /\ \E mid \in {(Len(Head(run.todo)) + 1) \div 2} :
       run' = [run EXCEPT !.todo = <<SubSeq(Head(@), 1, mid), SubSeq(Head(@), mid + 1, Len(Head(@)))>> \o Tail(@)]
  /\ UNCHANGED <<rows, reader>>
EndNaming ==
  /\ run.phase = "name" /\ run.todo = <<>>
  /\ run' = [run EXCEPT !.phase = "persist"]
  /\ UNCHANGED <<rows, reader>>

\* deleteMany before createMany.  Mutant: the clusters of an earlier attempt are left.
KeptClusters == rows.clusters
ClearedClusters == {}
ClusterId(l) == <<run.attempt, l>>
Persist ==
  /\ run.phase = "persist"
  /\ \E records \in {AssembleClusterRecords(run.labels, run.namings)} :
       rows' = [by |-> run.attempt,
                clusters |-> ClearedClusters \cup {[id |-> ClusterId(c.label), name |-> c.name, volume |-> c.volume, keywordCount |-> c.keywordCount] : c \in records},
                assignments |-> {[nt |-> x.nt, isNoise |-> x.isNoise,
                                  clusterId |-> IF \E c \in records : c.label = x.label THEN ClusterId(x.label) ELSE NoCluster] :
                                   x \in AssembleAssignments(run.labels)}]
  /\ run' = [run EXCEPT !.phase = "stored"]
  /\ UNCHANGED reader
MarkDone ==
  /\ run.phase = "stored"
  /\ run' = [run EXCEPT !.phase = "done", !.counts = [clusters |-> Len(ClusterLabels(run.labels)), noise |-> NoiseCount(run.labels)]]
  /\ UNCHANGED <<rows, reader>>

\* getTopics reads the two tables side by side.
LoadClusters ==
  /\ reader.clusters = NotRead
  /\ reader' = [reader EXCEPT !.clusters = [by |-> rows.by, rows |-> rows.clusters]]
  /\ UNCHANGED <<run, rows>>
LoadAssignments ==
  /\ reader.assignments = NotRead
  /\ reader' = [reader EXCEPT !.assignments = [by |-> rows.by, rows |-> rows.assignments]]
  /\ UNCHANGED <<run, rows>>
GetTopics ==
  /\ reader.clusters # NotRead /\ reader.assignments # NotRead
  /\ reader' = [clusters |-> NotRead, assignments |-> NotRead]
  /\ UNCHANGED <<run, rows>>

Next == ClusterAgain \/ ClusteringUnavailable \/ AttemptFails \/ Cluster \/ NameBatch \/ NameHalves \/ EndNaming
          \/ Persist \/ MarkDone \/ LoadClusters \/ LoadAssignments \/ GetTopics
Spec == Init /\ [][Next]_tvars

-----------------------------------------------------------------------------
TypeOK ==
  /\ run.attempt \in 1..MaxAttempts /\ run.calls \in 0..ClusterRetries
  /\ run.phase \in {"cluster", "name", "persist", "stored", "done", "partial"}
  /\ rows.by \in 0..MaxAttempts

\* An answer read from one set of rows adds up: the clusters of a name count the keywords shown under it and
\* their volumes, a keyword without a topic is noise, every keyword is shown, and adding a topic to a tracking
\* list adds the keywords shown under it, however often the run was worked on, and the counts of a run that is done are
\* those of the answer (persist, markStatus, buildTopicsResponse, expandTopicToMembers).
TopicsAddUp ==
  reader.clusters # NotRead /\ reader.assignments # NotRead =>
  \E response \in {BuildTopicsResponse(reader.clusters.rows, reader.assignments.rows)} :
    reader.clusters.by = reader.assignments.by /\ reader.clusters.by # 0 =>
      /\ {k.nt : k \in response.keywords} = {Keywords[i].nt : i \in DOMAIN Keywords}
      /\ \A k \in response.keywords : k.isNoise <=> k.topic = None
      /\ run.phase = "done" /\ run.attempt = reader.clusters.by =>
           run.counts = [clusters |-> Cardinality(response.clusters), noise |-> Cardinality({k \in response.keywords : k.isNoise})]
      /\ \A name \in {c.name : c \in response.clusters} :
         \E shown \in {{k.nt : k \in {x \in response.keywords : x.topic = name}}} :
         \E of \in {{c \in response.clusters : c.name = name}} :
           /\ FoldSet(LAMBDA c, acc : acc + c.keywordCount, 0, of) = Cardinality(shown)
           /\ FoldSet(LAMBDA c, acc : IF c.volume = Null THEN acc ELSE acc + c.volume, 0, of)
                = FoldSet(LAMBDA i, acc : IF Keywords[i].volume = Null THEN acc ELSE acc + Keywords[i].volume, 0,
                          {i \in DOMAIN Keywords : Keywords[i].nt \in shown})
           /\ rows.by = reader.clusters.by => ExpandTopicToMembers(rows, name) = shown
=============================================================================
