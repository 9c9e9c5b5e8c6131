------------------------------- MODULE ReadState -------------------------------
(* What the answers of a reader promise, said of the answers alone:          *)
(* SnapshotQuery has the steps.                                              *)
EXTENDS Integers

VARIABLE shown    \* per reader the answer

JOURNEY_VIEWS == {"journey", "journey_funnel"}

\* An insight is not about older data than the view showed when the version of the data was
\* resolved, however the runs of the view went on in between and whatever the cache held.
InsightKeepsUp ==
  \A c \in DOMAIN shown : "insight" \in DOMAIN shown[c] => shown[c].insight >= shown[c].due

\* A view that is gated on a journey run never answers with rows the run has not labelled, although
\* the gate and the join are two reads.
GatedAnswerIsLabelled ==
  \A c \in DOMAIN shown : shown[c].status = 200 /\ "request" \in DOMAIN shown[c] /\ shown[c].request.view \in JOURNEY_VIEWS
                            => shown[c].data # 0
=============================================================================
