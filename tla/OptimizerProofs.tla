--------------------------- MODULE OptimizerProofs ---------------------------
(***************************************************************************)
(* Safety of Optimizer for every number of requests, threads and toggles,  *)
(* every cache and every set of transformers.                              *)
(***************************************************************************)
EXTENDS OptimizerRefinement, FiniteSetTheorems, SequenceTheorems, WellFoundedInduction, TLAPS

-----------------------------------------------------------------------------
(* What detection, selection and measurement return, for every value of     *)
(* the parameters.                                                         *)

\* A nonempty set of naturals has a least element.
LEMMA LeastNatural ==
  ASSUME NEW T \in SUBSET Nat, T # {}
  PROVE  \E x \in T : \A y \in T : x <= y
<1> DEFINE less == {p \in Nat \X Nat : p[1] < p[2]}
<1>1. IsWellFoundedOn(less, Nat)
  BY NatLessThanWellFounded DEF OpToRel
<1> HIDE DEF less
<1>2. PICK x \in T : \A y \in T : ~ (<<y, x>> \in less)
  BY <1>1, WFMin
<1>3. ASSUME NEW y \in T PROVE x <= y
  <2>1. y < x => <<y, x>> \in less
    <3>1. <<y, x>> \in Nat \X Nat
      OBVIOUS
    <3> QED BY <3>1 DEF less
  <2> QED BY <1>2, <2>1
<1> QED BY <1>3

(***************************************************************************)
(* TransformerRegistry.select finds a transformer of the registry that     *)
(* handles the type whenever there is one, and the only candidate is then  *)
(* the one of least (priority, name).                                      *)
(***************************************************************************)
LEMMA SelectReturns ==
  ASSUME NEW among \in SUBSET Transformers, NEW type
  PROVE  \/ Select(among, type) = NoTransformer
         \/ Select(among, type) \in among /\ type \in Handles[Select(among, type)]
<1> DEFINE able == {t \in among : type \in Handles[t]}
<1>1. CASE able = {}
  BY <1>1 DEF Select
<1>2. CASE able # {}
  <2> DEFINE ranks == {Rank[t] : t \in able}
  <2>1. \A t \in able : Rank[t] \in Nat
    BY TransformersAssumption
  <2>2. ranks \in SUBSET Nat /\ ranks # {}
    BY <1>2, <2>1
  <2>3. PICK least \in ranks : \A n \in ranks : least <= n
    BY <2>2, LeastNatural
  <2>4. \E t \in able : \A o \in able : Rank[t] <= Rank[o]
    BY <2>3
  <2>5. Select(among, type) \in able
    BY <1>2, <2>4 DEF Select
  <2> QED BY <2>5
<1> QED BY <1>1, <1>2

(***************************************************************************)
(* ContentDetector.detect returns a content type.                          *)
(***************************************************************************)
LEMMA DetectReturns ==
  ASSUME NEW asked \in SUBSET Sniffers, NEW c \in Text
  PROVE  Detect(asked, c) \in Types
<1> DEFINE claimants == {s \in asked : Confidence[s][c] # Abstains}
           Wins(s)   == \A o \in claimants :
                          \/ Confidence[s][c] > Confidence[o][c]
                          \/ Confidence[s][c] = Confidence[o][c] /\ Position[s] <= Position[o]
<1>1. CASE claimants = {}
  BY <1>1, SniffersAssumption DEF Detect
<1>2. CASE claimants # {}
  <2> DEFINE doubts == {100 - Confidence[s][c] : s \in claimants}
  <2>1. \A s \in claimants : Confidence[s][c] \in Int /\ Confidence[s][c] <= 100
    <3>1. ASSUME NEW s \in claimants PROVE Confidence[s] \in [Text -> Abstains..100]
      BY SniffersAssumption
    <3> QED BY <3>1 DEF Abstains
  <2>2. \A s \in claimants : 100 - Confidence[s][c] \in Nat
    BY <2>1
  <2>3. doubts \in SUBSET Nat /\ doubts # {}
    BY <1>2, <2>2
  <2>4. PICK least \in doubts : \A n \in doubts : least <= n
    BY <2>3, LeastNatural
  <2> DEFINE surest == {s \in claimants : 100 - Confidence[s][c] = least}
             places == {Position[s] : s \in surest}
  <2>5. surest # {}
    BY <2>4
  <2>6. \A s \in surest : Position[s] \in Nat
    BY SniffersAssumption
  <2>7. places \in SUBSET Nat /\ places # {}
    BY <2>5, <2>6
  <2>8. PICK first \in places : \A n \in places : first <= n
    BY <2>7, LeastNatural
  <2>9. PICK s \in surest : Position[s] = first
    BY <2>8
  <2>10. Wins(s)
    <3>1. SUFFICES ASSUME NEW o \in claimants
                   PROVE  \/ Confidence[s][c] > Confidence[o][c]
                          \/ Confidence[s][c] = Confidence[o][c] /\ Position[s] <= Position[o]
      OBVIOUS
    <3>2. Confidence[s][c] \in Int /\ Confidence[o][c] \in Int
      BY <2>1
    <3>3. 100 - Confidence[s][c] <= 100 - Confidence[o][c]
      BY <2>4
    <3>4. CASE Confidence[s][c] = Confidence[o][c]
      BY <2>8, <2>9, <3>4
    <3> QED BY <3>2, <3>3, <3>4
  <2>11. (CHOOSE t \in claimants : Wins(t)) \in claimants
    BY <2>10
  <2> HIDE DEF Wins
  <2>12. Detect(asked, c) = Claim[CHOOSE t \in claimants : Wins(t)][c]
    BY <1>2 DEF Detect, Wins
  <2> QED BY <2>11, <2>12, SniffersAssumption
<1> QED BY <1>1, <1>2

(***************************************************************************)
(* _compute_text and _compute_document return results that never report    *)
(* more tokens after than before.                                          *)
(***************************************************************************)
LEMMA MeasuredReturns ==
  ASSUME NEW t \in Transformers, NEW c \in Text, NEW e \in Encodings
  PROVE  /\ Measured(t, c, e) \in Results
         /\ Measured(t, c, e).by = t /\ Measured(t, c, e).of = c
         /\ Measured(t, c, e).changed => TokensAfter[e][t][c] <= Tokens[e][c]
BY TokensAssumption DEF Measured, Result, Results, Segments, Authors

LEMMA ExtractedReturns ==
  ASSUME NEW d \in Documents, NEW e \in Encodings
  PROVE  /\ Extracted(d, e) \in Results
         /\ Extracted(d, e).by = Extractor /\ Extracted(d, e).of = d
         /\ Extracted(d, e).changed => TokensAfter[e][Extractor][d] < Tokens[e][d]
BY TokensAssumption DEF Extracted, Result, Results, Segments, Authors

-----------------------------------------------------------------------------
(* The inductive invariant.                                                *)

SegmentSteps == {"key", "lookup", "detect", "apply", "extract", "store"}

\* An entry is sound for a key: it renders the content the key was computed
\* from, by a transformation that completed, and does not grow a text in the
\* encoding of the key.
Sound(k, entry) ==
  \/ /\ k.kind = "text" /\ entry.of \in Text /\ entry.of = k.content
     /\ k.encoding \in Encodings
     /\ entry.by \in Transformers /\ Effect[entry.by][entry.of] # "raise"
     /\ entry.changed =>
          TokensAfter[k.encoding][entry.by][entry.of] <= Tokens[k.encoding][entry.of]
  \/ /\ k.kind = "document" /\ entry.of \in Extractable /\ Data[entry.of] = k.content

CacheSound == \A x \in cache : Sound(x.key, x.entry)
CacheUnique == \A x, y \in cache : x.key = y.key => x = y

\* The key in hand belongs to the segment in hand, in the request's encoding.
KeyInHand(r) ==
  /\ key[r] \in Keys
  /\ Segment(r) \in Text => /\ key[r].kind = "text" /\ key[r].content = Segment(r)
                            /\ key[r].encoding = Encoding(r)
  /\ Segment(r) \in Documents => key[r].kind = "document" /\ key[r].content = Data[Segment(r)]

Progress(r) ==
  /\ pc[r] \in {"new", "queued", "parse"} => at[r] = 1
  /\ pc[r] \in SegmentSteps => at[r] \in 1..Len(shape[r].segments)
  /\ pc[r] \in SegmentSteps \ {"key"} /\ CacheEnabled => KeyInHand(r)
  /\ pc[r] \in {"lookup", "store"} => CacheEnabled
  /\ pc[r] \in {"detect", "apply"} => Segment(r) \in Text
  /\ pc[r] = "apply" => detected[r] \in Types
  /\ pc[r] = "extract" => Segment(r) \in Documents
  /\ pc[r] = "store" => /\ results[r] # <<>>
                        /\ Sound(key[r], results[r][Len(results[r])])

IInv ==
  /\ TypeOK
  /\ \A r \in Requests : Progress(r)
  /\ CacheSound
  /\ CacheUnique
  /\ NeverGrows
  /\ OwnContent

-----------------------------------------------------------------------------
(* What the shapes of requests and the policy guarantee.                   *)

LEMMA ShapeFacts ==
  ASSUME shape \in [Requests -> Shapes], NEW r \in Requests
  PROVE  /\ shape[r].segments \in Seq(Segments)
         /\ Len(shape[r].segments) \in Nat
         /\ Encoding(r) \in Encodings
         /\ shape[r].preview => Len(shape[r].segments) = 1
<1>1. shape[r] \in RequestShape /\ (shape[r].preview => Len(shape[r].segments) = 1)
  BY ShapesAssumption
<1>2. shape[r].segments \in Seq(Segments) /\ shape[r].encoding \in Encodings
  BY <1>1 DEF RequestShape
<1> QED BY <1>1, <1>2 DEF Encoding

LEMMA SegmentFacts ==
  ASSUME shape \in [Requests -> Shapes], NEW r \in Requests,
         at[r] \in 1..Len(shape[r].segments)
  PROVE  /\ Segment(r) \in Segments
         /\ Segment(r) \in Text <=> Segment(r) \notin Documents
<1>1. Segment(r) \in Segments
  BY ShapeFacts DEF Segment
<1> QED BY <1>1, ContentsAssumption DEF Segments

\* PolicyEngine.decide allows, or names one of the rules' reasons.
LEMMA DecideReturns ==
  ASSUME NEW request, NEW enabled
  PROVE  Decide(request, enabled) \in SkipReasons \cup {Allow}
<1> DEFINE rules   == Objections(request, enabled)
           against == {i \in DOMAIN rules : rules[i].holds}
<1>1. CASE against = {}
  BY <1>1 DEF Decide
<1>2. CASE against # {}
  <2>1. DOMAIN rules = 1..6
    BY DEF Objections
  <2>2. against \in SUBSET Nat
    BY <2>1
  <2>3. PICK least \in against : \A i \in against : least <= i
    BY <1>2, <2>2, LeastNatural
  <2>4. Min(against) \in 1..6
    BY <2>1, <2>3 DEF Min
  <2>5. \A i \in 1..6 : rules[i].reason \in SkipReasons
    BY DEF Objections, SkipReasons
  <2> QED BY <1>2, <2>4, <2>5 DEF Decide
<1> QED BY <1>1, <1>2

-----------------------------------------------------------------------------
LEMMA InitEstablishes == Init => IInv
<1> SUFFICES ASSUME Init PROVE IInv
  OBVIOUS
<1>1. TypeOK
  <2>1. registry \in SUBSET Transformers /\ sniffers \in SUBSET Sniffers
    BY DEF Init, Transformers, Sniffers
  <2>2. report \in [Requests -> Reports]
    BY DEF Init, NoReport, Skipped, Reports
  <2>3. results \in [Requests -> Seq(Results)]
    BY DEF Init
  <2> QED BY <2>1, <2>2, <2>3, SizesAssumption DEF Init, TypeOK
<1>2. \A r \in Requests : Progress(r)
  BY DEF Init, Progress, SegmentSteps
<1>3. CacheSound /\ CacheUnique /\ NeverGrows /\ OwnContent
  BY DEF Init, CacheSound, CacheUnique, NeverGrows, OwnContent
<1> QED BY <1>1, <1>2, <1>3 DEF IInv

\* What an action leaves alone keeps the invariants about it.
LEMMA Untroubled ==
  /\ CacheSound /\ CacheUnique /\ UNCHANGED cache => CacheSound' /\ CacheUnique'
  /\ NeverGrows /\ OwnContent /\ UNCHANGED <<written, shape>> => NeverGrows' /\ OwnContent'
BY DEF CacheSound, CacheUnique, NeverGrows, OwnContent, TextOf, Encoding

\* A step of one request that leaves its shape alone keeps the progress of others.
LEMMA OthersProgress ==
  ASSUME TypeOK, NEW r \in Requests, NEW q \in Requests, q # r, Progress(q), UNCHANGED shape,
         pc'[q] = pc[q], at'[q] = at[q], key'[q] = key[q],
         detected'[q] = detected[q], results'[q] = results[q]
  PROVE  Progress(q)'
BY DEF Progress, KeyInHand, Segment, Encoding

\* Going on from segment to segment keeps the types and the progress of r.
LEMMA OnwardProgress ==
  ASSUME TypeOK, NEW r \in Requests, at[r] \in 1..Len(shape[r].segments),
         Onward(r), UNCHANGED shape, results' \in [Requests -> Seq(Results)],
         \A q \in Requests \ {r} : results'[q] = results[q],
         \A q \in Requests : Progress(q)
  PROVE  /\ pc' \in [Requests -> Steps \cup {"new", "queued", "done", "raised"}]
         /\ at' \in [Requests -> Nat \ {0}]
         /\ key' \in [Requests -> Keys \cup {NoKey}]
         /\ detected' \in [Requests -> Types \cup {NoType}]
         /\ \A q \in Requests : Progress(q)'
<1>1. /\ Len(shape[r].segments) \in Nat
      /\ at[r] \in Nat
  BY ShapeFacts DEF TypeOK
<1>2. pc' \in [Requests -> Steps \cup {"new", "queued", "done", "raised"}]
  BY DEF TypeOK, Onward, Go, Steps
<1>3. at' \in [Requests -> Nat \ {0}]
  BY <1>1 DEF TypeOK, Onward
<1>4. key' \in [Requests -> Keys \cup {NoKey}] /\ detected' \in [Requests -> Types \cup {NoType}]
  BY DEF TypeOK, Onward
<1>5. Progress(r)'
  BY <1>1 DEF TypeOK, Onward, Go, Progress, SegmentSteps
<1>6. ASSUME NEW q \in Requests, q # r PROVE Progress(q)'
  BY <1>6, OthersProgress DEF TypeOK, Onward, Go
<1> QED BY <1>2, <1>3, <1>4, <1>5, <1>6

-----------------------------------------------------------------------------
(* One lemma per action of a request.                                      *)

LEMMA TransformKeeps ==
  ASSUME IInv, NEW r \in Requests, Transform(r)
  PROVE  IInv'
<1> USE DEF IInv
<1>1. report' \in [Requests -> Reports]
  <2>1. Skipped(Decide(shape[r], optimizing)) \in Reports \/ Decide(shape[r], optimizing) = Allow
    BY DecideReturns DEF Skipped, Reports
  <2> QED BY <2>1 DEF TypeOK, Transform, Answer, Go
<1>2. pc' \in [Requests -> Steps \cup {"new", "queued", "done", "raised"}]
  BY DEF TypeOK, Transform, Answer, Go, Steps
<1>3. seen' \in [Requests -> SUBSET BOOLEAN]
  BY DEF TypeOK, Transform
<1>4. TypeOK'
  BY <1>1, <1>2, <1>3 DEF TypeOK, Transform, control
<1>5. Progress(r)'
  BY DEF TypeOK, Transform, Answer, Go, Progress, SegmentSteps
<1>6. ASSUME NEW q \in Requests, q # r PROVE Progress(q)'
  BY <1>6, OthersProgress DEF TypeOK, Transform, Answer, Go
<1> QED BY <1>4, <1>5, <1>6, Untroubled DEF Transform

LEMMA PreviewKeeps ==
  ASSUME IInv, NEW r \in Requests, Preview(r)
  PROVE  IInv'
<1> USE DEF IInv
<1>1. TypeOK'
  BY DEF TypeOK, Preview, Go, Steps, control
<1>2. Len(shape[r].segments) = 1
  BY ShapeFacts DEF TypeOK, Preview
<1>3. Progress(r)'
  BY <1>2 DEF TypeOK, Preview, Go, Progress, SegmentSteps
<1>4. ASSUME NEW q \in Requests, q # r PROVE Progress(q)'
  BY <1>4, OthersProgress DEF TypeOK, Preview, Go
<1> QED BY <1>1, <1>3, <1>4, Untroubled DEF Preview

LEMMA StartWorkerKeeps ==
  ASSUME IInv, NEW r \in Requests, StartWorker(r)
  PROVE  IInv'
<1> USE DEF IInv
<1>1. TypeOK'
  BY DEF TypeOK, StartWorker, Go, Steps, control
<1>2. Progress(r)'
  BY DEF TypeOK, StartWorker, Go, Progress, SegmentSteps
<1>3. ASSUME NEW q \in Requests, q # r PROVE Progress(q)'
  BY <1>3, OthersProgress DEF TypeOK, StartWorker, Go
<1> QED BY <1>1, <1>2, <1>3, Untroubled DEF StartWorker

LEMMA ParseKeeps ==
  ASSUME IInv, NEW r \in Requests, Parse(r)
  PROVE  IInv'
<1> USE DEF IInv
<1>1. report' \in [Requests -> Reports]
  <2>1. Skipped(Rejection(shape[r])) \in Reports
    BY DEF Skipped, Reports, Rejection, SkipReasons
  <2> QED BY <2>1 DEF TypeOK, Parse, Answer, Go
<1>2. pc' \in [Requests -> Steps \cup {"new", "queued", "done", "raised"}]
  BY DEF TypeOK, Parse, Answer, Go, Steps
<1>3. TypeOK'
  BY <1>1, <1>2 DEF TypeOK, Parse, control
<1>4. Progress(r)'
  <2>1. pc'[r] = "key" => Len(shape[r].segments) \in Nat \ {0}
    BY ShapeFacts, EmptySeq DEF TypeOK, Parse, Answer, Go, Rejection
  <2>2. at'[r] = 1 /\ shape' = shape /\ pc'[r] \in {"key", "done"}
    BY DEF TypeOK, Parse, Answer, Go, Progress
  <2> QED BY <2>1, <2>2 DEF Progress, SegmentSteps
<1>5. ASSUME NEW q \in Requests, q # r PROVE Progress(q)'
  BY <1>5, OthersProgress DEF TypeOK, Parse, Answer, Go
<1> QED BY <1>3, <1>4, <1>5, Untroubled DEF Parse

LEMMA SkipSegmentKeeps ==
  ASSUME IInv, NEW r \in Requests, SkipSegment(r)
  PROVE  IInv'
<1> USE DEF IInv
<1>1. at[r] \in 1..Len(shape[r].segments)
  BY DEF Progress, SegmentSteps, SkipSegment
<1>2. UNCHANGED <<shape, results>> /\ Onward(r)
  BY DEF SkipSegment
<1>3. TypeOK' /\ \A q \in Requests : Progress(q)'
  BY <1>1, <1>2, OnwardProgress DEF TypeOK, SkipSegment, control
<1> QED BY <1>3, Untroubled DEF SkipSegment

LEMMA PassThroughKeeps ==
  ASSUME IInv, NEW r \in Requests, PassThrough(r)
  PROVE  IInv'
<1> USE DEF IInv
<1>1. at[r] \in 1..Len(shape[r].segments)
  BY DEF Progress, SegmentSteps, PassThrough
<1>2. UNCHANGED <<shape, results>> /\ Onward(r)
  BY DEF PassThrough
<1>3. TypeOK' /\ \A q \in Requests : Progress(q)'
  BY <1>1, <1>2, OnwardProgress DEF TypeOK, PassThrough, control
<1> QED BY <1>3, Untroubled DEF PassThrough

LEMMA ComputeTextKeyKeeps ==
  ASSUME IInv, NEW r \in Requests, ComputeTextKey(r)
  PROVE  IInv'
<1> USE DEF IInv
<1>1. /\ at[r] \in 1..Len(shape[r].segments) /\ Segment(r) \in Text
      /\ Encoding(r) \in Encodings
  BY ShapeFacts DEF TypeOK, Progress, SegmentSteps, ComputeTextKey
<1>2. TextKey(Segment(r), registry, Encoding(r)) \in Keys
  BY <1>1 DEF TypeOK, TextKey, Keys
<1>3. TypeOK'
  <2>1. key' \in [Requests -> Keys \cup {NoKey}]
    BY <1>2 DEF TypeOK, ComputeTextKey, Raise, Go
  <2>2. pc' \in [Requests -> Steps \cup {"new", "queued", "done", "raised"}]
    BY DEF TypeOK, ComputeTextKey, Raise, Go, Steps
  <2> QED BY <2>1, <2>2 DEF TypeOK, ComputeTextKey, Raise, Go, control
<1>4. Progress(r)'
  <2>1. CASE ~CacheEnabled
    BY <1>1, <2>1 DEF TypeOK, ComputeTextKey, Go, Progress, SegmentSteps, Segment
  <2>2. CASE CacheEnabled /\ Segment(r) \in Unencodable
    BY <2>2 DEF TypeOK, ComputeTextKey, Raise, Go, Progress, SegmentSteps
  <2>3. CASE CacheEnabled /\ Segment(r) \notin Unencodable
    <3>1. /\ pc'[r] = "lookup" /\ UNCHANGED <<at, shape>>
          /\ key'[r] = TextKey(Segment(r), registry, Encoding(r))
      BY <2>3 DEF TypeOK, ComputeTextKey, Go
    <3>2. KeyInHand(r)'
      BY <1>1, <1>2, <3>1, ContentsAssumption DEF KeyInHand, TextKey, Segment, Encoding
    <3> QED BY <1>1, <2>3, <3>1, <3>2 DEF Progress, SegmentSteps
  <2> QED BY <2>1, <2>2, <2>3
<1>5. ASSUME NEW q \in Requests, q # r PROVE Progress(q)'
  BY <1>5, OthersProgress DEF TypeOK, ComputeTextKey, Raise, Go
<1>6. UNCHANGED <<cache, written, shape>>
  BY DEF ComputeTextKey, Raise
<1> QED BY <1>3, <1>4, <1>5, <1>6, Untroubled

LEMMA ComputeDocumentKeyKeeps ==
  ASSUME IInv, NEW r \in Requests, ComputeDocumentKey(r)
  PROVE  IInv'
<1> USE DEF IInv
<1>1. /\ at[r] \in 1..Len(shape[r].segments) /\ Segment(r) \in Documents
      /\ Encoding(r) \in Encodings
  BY ShapeFacts DEF TypeOK, Progress, SegmentSteps, ComputeDocumentKey
<1>2. DocumentKey(Segment(r), Encoding(r)) \in Keys
  BY <1>1 DEF DocumentKey, Keys
<1>3. TypeOK'
  <2>1. key' \in [Requests -> Keys \cup {NoKey}]
    <3>1. key \in [Requests -> Keys \cup {NoKey}]
      BY DEF TypeOK
    <3>2. key' = key \/ key' = [key EXCEPT ![r] = DocumentKey(Segment(r), Encoding(r))]
      BY DEF ComputeDocumentKey
    <3> QED BY <1>2, <3>1, <3>2
  <2>2. pc' \in [Requests -> Steps \cup {"new", "queued", "done", "raised"}]
    BY DEF TypeOK, ComputeDocumentKey, Go, Steps
  <2> QED BY <2>1, <2>2 DEF TypeOK, ComputeDocumentKey, Go, control
<1>4. Progress(r)'
  <2>1. CASE ~CacheEnabled
    BY <1>1, <2>1 DEF TypeOK, ComputeDocumentKey, Go, Progress, SegmentSteps, Segment
  <2>2. CASE CacheEnabled
    <3>1. /\ pc'[r] = "lookup" /\ UNCHANGED <<at, shape>>
          /\ key'[r] = DocumentKey(Segment(r), Encoding(r))
      BY <2>2 DEF TypeOK, ComputeDocumentKey, Go
    <3>2. KeyInHand(r)'
      BY <1>1, <1>2, <3>1, ContentsAssumption DEF KeyInHand, DocumentKey, Segment, Encoding
    <3> QED BY <1>1, <2>2, <3>1, <3>2 DEF Progress, SegmentSteps
  <2> QED BY <2>1, <2>2
<1>5. ASSUME NEW q \in Requests, q # r PROVE Progress(q)'
  BY <1>5, OthersProgress DEF TypeOK, ComputeDocumentKey, Go
<1> QED BY <1>3, <1>4, <1>5, Untroubled DEF ComputeDocumentKey

LEMMA MissKeeps ==
  ASSUME IInv, NEW r \in Requests, Miss(r)
  PROVE  IInv'
<1> USE DEF IInv
<1>1. TypeOK'
  BY DEF TypeOK, Miss, Go, Steps, control
<1>2. Progress(r)'
  <2>1. /\ at[r] \in 1..Len(shape[r].segments) /\ KeyInHand(r) /\ CacheEnabled
        /\ Segment(r) \in Text <=> Segment(r) \notin Documents
    BY SegmentFacts DEF TypeOK, Miss, Progress, SegmentSteps
  <2>2. /\ pc'[r] = IF Segment(r) \in Documents THEN "extract" ELSE "detect"
        /\ UNCHANGED <<at, shape, key>>
    BY DEF TypeOK, Miss, Go
  <2>3. Segment(r)' = Segment(r) /\ Encoding(r)' = Encoding(r) /\ KeyInHand(r)'
    BY <2>1, <2>2 DEF Segment, Encoding, KeyInHand
  <2> QED BY <2>1, <2>2, <2>3 DEF Progress, SegmentSteps
<1>3. ASSUME NEW q \in Requests, q # r PROVE Progress(q)'
  BY <1>3, OthersProgress DEF TypeOK, Miss, Go
<1> QED BY <1>1, <1>2, <1>3, Untroubled DEF Miss

LEMMA DetectTypeKeeps ==
  ASSUME IInv, NEW r \in Requests, DetectType(r)
  PROVE  IInv'
<1> USE DEF IInv
<1>1. Segment(r) \in Text /\ at[r] \in 1..Len(shape[r].segments)
  BY DEF DetectType, Progress, SegmentSteps
<1>2. Detect(sniffers, Segment(r)) \in Types
  BY <1>1, DetectReturns DEF TypeOK
<1>3. TypeOK'
  BY <1>2 DEF TypeOK, DetectType, Go, Steps, control
<1>4. Progress(r)'
  <2>1. /\ pc'[r] = "apply" /\ detected'[r] \in Types /\ UNCHANGED <<at, shape, key>>
        /\ CacheEnabled => KeyInHand(r)
    BY <1>2 DEF TypeOK, DetectType, Go, Progress, SegmentSteps
  <2>2. Segment(r)' = Segment(r) /\ (CacheEnabled => KeyInHand(r)')
    BY <2>1 DEF Segment, Encoding, KeyInHand
  <2> QED BY <1>1, <2>1, <2>2 DEF Progress, SegmentSteps
<1>5. ASSUME NEW q \in Requests, q # r PROVE Progress(q)'
  BY <1>5, OthersProgress DEF TypeOK, DetectType, Go
<1> QED BY <1>3, <1>4, <1>5, Untroubled DEF DetectType

\* What Keep leaves of the written replacements: those there were, and one
\* for the segment in hand if its result changed it.
LEMMA KeepKeeps ==
  ASSUME TypeOK, NeverGrows, OwnContent, NEW r \in Requests, NEW result \in Results,
         at[r] \in 1..Len(shape[r].segments), Keep(r, result), UNCHANGED shape,
         result.changed =>
           /\ Segment(r) \in Text =>
                /\ result.of = Segment(r)
                /\ TokensAfter[Encoding(r)][result.by][result.of] <= Tokens[Encoding(r)][Segment(r)]
           /\ Segment(r) \in Documents =>
                result.of \in Documents /\ Data[result.of] = Data[Segment(r)]
  PROVE  /\ results' \in [Requests -> Seq(Results)]
         /\ \A q \in Requests \ {r} : results'[q] = results[q]
         /\ results'[r] = Append(results[r], result)
         /\ written' \in [Requests -> SUBSET Writes]
         /\ NeverGrows' /\ OwnContent'
<1> DEFINE new == [at |-> at[r], by |-> result.by, of |-> result.of]
<1>1. /\ results' \in [Requests -> Seq(Results)]
      /\ \A q \in Requests \ {r} : results'[q] = results[q]
      /\ results'[r] = Append(results[r], result)
  BY DEF TypeOK, Keep
<1>2. new \in Writes
  BY DEF TypeOK, Writes, Results
<1>3. /\ \A q \in Requests \ {r} : written'[q] = written[q]
      /\ result.changed => written'[r] = written[r] \cup {new}
      /\ ~result.changed => written'[r] = written[r]
  BY DEF TypeOK, Keep
<1>4. written' \in [Requests -> SUBSET Writes]
  BY <1>2 DEF TypeOK, Keep
<1>5. TextOf(r, new) = Segment(r) /\ (Segment(r) \in Text \/ Segment(r) \in Documents)
  BY SegmentFacts DEF TypeOK, TextOf, Segment, Segments
<1>6. ASSUME NEW q \in Requests, NEW w \in written'[q], w \in written[q]
      PROVE  /\ TextOf(q, w) \in Text =>
                   TokensAfter[Encoding(q)][w.by][w.of] <= Tokens[Encoding(q)][TextOf(q, w)]
             /\ \/ TextOf(q, w) \in Text /\ w.of = TextOf(q, w)
                \/ TextOf(q, w) \in Documents /\ w.of \in Documents /\ Data[w.of] = Data[TextOf(q, w)]
  BY <1>6 DEF NeverGrows, OwnContent
<1>7. ASSUME NEW q \in Requests, NEW w \in written'[q], w \notin written[q]
      PROVE  q = r /\ w = new /\ result.changed
  BY <1>3, <1>7
<1>8. \A q \in Requests : \A w : TextOf(q, w)' = shape[q].segments[w.at] /\ Encoding(q)' = Encoding(q)
  BY DEF TextOf, Encoding
<1>9. new.by = result.by /\ new.of = result.of
  OBVIOUS
<1> HIDE DEF new
<1>10. NeverGrows'
  <2> SUFFICES ASSUME NEW q \in Requests, NEW w \in written'[q], TextOf(q, w) \in Text
               PROVE  TokensAfter[Encoding(q)][w.by][w.of] <= Tokens[Encoding(q)][TextOf(q, w)]
    BY <1>8 DEF NeverGrows, TextOf
  <2>1. CASE w \in written[q]
    BY <2>1, <1>6
  <2>2. CASE w \notin written[q]
    BY <2>2, <1>5, <1>7, <1>9
  <2> QED BY <2>1, <2>2
<1>11. OwnContent'
  <2> SUFFICES ASSUME NEW q \in Requests, NEW w \in written'[q]
               PROVE  \/ TextOf(q, w) \in Text /\ w.of = TextOf(q, w)
                      \/ TextOf(q, w) \in Documents /\ w.of \in Documents /\ Data[w.of] = Data[TextOf(q, w)]
    BY <1>8 DEF OwnContent, TextOf
  <2>1. CASE w \in written[q]
    BY <2>1, <1>6
  <2>2. CASE w \notin written[q]
    BY <2>2, <1>5, <1>7, <1>9
  <2> QED BY <2>1, <2>2
<1> QED BY <1>1, <1>4, <1>10, <1>11

LEMMA HitKeeps ==
  ASSUME IInv, NEW r \in Requests, Hit(r)
  PROVE  IInv'
<1> USE DEF IInv
<1>1. /\ at[r] \in 1..Len(shape[r].segments) /\ KeyInHand(r)
      /\ Segment(r) \in Text <=> Segment(r) \notin Documents
  BY SegmentFacts DEF TypeOK, Hit, Progress, SegmentSteps
<1>2. PICK x \in Cached(key[r]) : Keep(r, [x.entry EXCEPT !.hit = TRUE])
  BY DEF Hit
<1> DEFINE result == [x.entry EXCEPT !.hit = TRUE]
<1>3. /\ x.entry \in Results /\ x.key = key[r] /\ Sound(key[r], x.entry)
  BY <1>2 DEF Cached, TypeOK, CacheSound
<1>4. /\ result \in Results /\ result.by = x.entry.by /\ result.of = x.entry.of
      /\ result.changed = x.entry.changed
  BY <1>3 DEF Results
<1>5. Segment(r) \in Text /\ x.entry.changed =>
        /\ x.entry.of = Segment(r)
        /\ TokensAfter[Encoding(r)][x.entry.by][x.entry.of] <= Tokens[Encoding(r)][Segment(r)]
  BY <1>1, <1>3 DEF KeyInHand, Sound
<1>6. Segment(r) \in Documents => x.entry.of \in Documents /\ Data[x.entry.of] = Data[Segment(r)]
  BY <1>1, <1>3, ContentsAssumption DEF KeyInHand, Sound
<1>7. Onward(r) /\ UNCHANGED <<shape, cache>>
  BY DEF Hit
<1> HIDE DEF result
<1>8. /\ results' \in [Requests -> Seq(Results)]
      /\ \A q \in Requests \ {r} : results'[q] = results[q]
      /\ written' \in [Requests -> SUBSET Writes]
      /\ NeverGrows' /\ OwnContent'
  <2>1. Keep(r, result)
    BY <1>2 DEF result
  <2> QED BY <1>1, <1>4, <1>5, <1>6, <1>7, <2>1, KeepKeeps
<1>9. TypeOK' /\ \A q \in Requests : Progress(q)'
  BY <1>1, <1>7, <1>8, OnwardProgress DEF TypeOK, Hit, control
<1> QED BY <1>7, <1>8, <1>9, Untroubled

\* A result just computed is stored next, or the segment is finished.
LEMMA ComputedProgress ==
  ASSUME IInv, NEW r \in Requests, NEW result \in Results,
         pc[r] \in SegmentSteps \ {"key"}, Keep(r, result), UNCHANGED <<control, cache, shape, seen>>,
         result.changed =>
           /\ Segment(r) \in Text =>
                /\ result.of = Segment(r)
                /\ TokensAfter[Encoding(r)][result.by][result.of] <= Tokens[Encoding(r)][Segment(r)]
           /\ Segment(r) \in Documents =>
                result.of \in Documents /\ Data[result.of] = Data[Segment(r)],
         UNCHANGED report,
         \/ Onward(r)
         \/ /\ CacheEnabled /\ Go(r, "store") /\ UNCHANGED <<at, key, detected>>
            /\ Sound(key[r], result)
  PROVE  IInv'
<1> USE DEF IInv
<1>1. at[r] \in 1..Len(shape[r].segments)
  BY DEF Progress
<1>2. /\ results' \in [Requests -> Seq(Results)]
      /\ \A q \in Requests \ {r} : results'[q] = results[q]
      /\ results'[r] = Append(results[r], result)
      /\ written' \in [Requests -> SUBSET Writes]
      /\ NeverGrows' /\ OwnContent'
  BY <1>1, KeepKeeps
<1>3. CASE Onward(r)
  <2>1. TypeOK' /\ \A q \in Requests : Progress(q)'
    BY <1>1, <1>2, <1>3, OnwardProgress DEF TypeOK, control
  <2> QED BY <1>2, <2>1, Untroubled
<1>4. CASE ~Onward(r)
  <2>1. /\ CacheEnabled /\ pc' = [pc EXCEPT ![r] = "store"] /\ UNCHANGED <<at, key, detected>>
        /\ Sound(key[r], result)
    BY <1>4 DEF Go
  <2>2. TypeOK'
    BY <1>2, <2>1 DEF TypeOK, control, Steps
  <2>3. results[r] \in Seq(Results) /\ pc'[r] = "store"
    BY <2>1 DEF TypeOK
  <2>4. results'[r] # <<>> /\ results'[r][Len(results'[r])] = result
    BY <1>2, <2>3
  <2>5. KeyInHand(r)'
    BY <2>1 DEF Progress, KeyInHand, Segment, Encoding
  <2>6. Progress(r)'
    BY <1>1, <2>1, <2>3, <2>4, <2>5 DEF Progress, SegmentSteps, Sound
  <2>7. ASSUME NEW q \in Requests, q # r PROVE Progress(q)'
    BY <1>2, <2>1, <2>7, OthersProgress DEF TypeOK
  <2> QED BY <1>2, <2>2, <2>6, <2>7, Untroubled
<1> QED BY <1>3, <1>4

LEMMA ApplyTransformerKeeps ==
  ASSUME IInv, NEW r \in Requests, ApplyTransformer(r)
  PROVE  IInv'
<1> USE DEF IInv
<1>1. /\ at[r] \in 1..Len(shape[r].segments) /\ Segment(r) \in Text /\ Segment(r) \notin Documents
      /\ Encoding(r) \in Encodings /\ pc[r] = "apply" /\ detected[r] \in Types
      /\ CacheEnabled => KeyInHand(r)
  BY ShapeFacts, SegmentFacts DEF TypeOK, ApplyTransformer, Progress, SegmentSteps
<1>2. CASE Segment(r) \in Unencodable
  <2>1. Raise(r) /\ UNCHANGED <<control, cache, shape, seen>>
    BY <1>2 DEF ApplyTransformer
  <2>2. TypeOK'
    BY <2>1 DEF TypeOK, Raise, Go, control
  <2>3. Progress(r)'
    BY <2>1 DEF TypeOK, Raise, Go, Progress, SegmentSteps
  <2>4. ASSUME NEW q \in Requests, q # r PROVE Progress(q)'
    BY <2>1, <2>4, OthersProgress DEF TypeOK, Raise, Go
  <2> QED BY <2>1, <2>2, <2>3, <2>4, Untroubled DEF Raise
<1>3. CASE Segment(r) \notin Unencodable
  <2> DEFINE result == Measured(Chosen(r), Segment(r), Encoding(r))
  <2>1. Chosen(r) \in Transformers /\ Effect[Chosen(r)][Segment(r)] # "raise"
    BY <1>1, SelectReturns DEF TypeOK, ApplyTransformer, NoOutput, Chosen
  <2>2. /\ result \in Results /\ result.by = Chosen(r) /\ result.of = Segment(r)
        /\ result.changed =>
             TokensAfter[Encoding(r)][Chosen(r)][Segment(r)] <= Tokens[Encoding(r)][Segment(r)]
    BY <1>1, <2>1, MeasuredReturns
  <2>3. CacheEnabled => Sound(key[r], result)
    BY <1>1, <2>1, <2>2 DEF KeyInHand, Sound
  <2>4. /\ Keep(r, result) /\ UNCHANGED <<control, cache, shape, seen, report>>
        /\ \/ Onward(r)
           \/ CacheEnabled /\ Go(r, "store") /\ UNCHANGED <<at, key, detected>>
    BY <1>3 DEF ApplyTransformer
  <2> HIDE DEF result
  <2> QED BY <1>1, <2>2, <2>3, <2>4, ComputedProgress DEF SegmentSteps
<1> QED BY <1>2, <1>3

LEMMA ExtractDocumentKeeps ==
  ASSUME IInv, NEW r \in Requests, ExtractDocument(r)
  PROVE  IInv'
<1> USE DEF IInv
<1> DEFINE result == Extracted(Segment(r), Encoding(r))
<1>1. /\ at[r] \in 1..Len(shape[r].segments) /\ Segment(r) \in Documents /\ Segment(r) \notin Text
      /\ Encoding(r) \in Encodings /\ pc[r] = "extract" /\ (CacheEnabled => KeyInHand(r))
  BY ShapeFacts, SegmentFacts DEF TypeOK, ExtractDocument, Progress, SegmentSteps
<1>2. result \in Results /\ result.of = Segment(r)
  BY <1>1, ExtractedReturns
<1>3. CacheEnabled /\ Segment(r) \in Extractable => Sound(key[r], result)
  BY <1>1, <1>2 DEF KeyInHand, Sound
<1>4. /\ Keep(r, result) /\ UNCHANGED <<control, cache, shape, report, seen>>
      /\ \/ Onward(r)
         \/ /\ CacheEnabled /\ Segment(r) \in Extractable
            /\ Go(r, "store") /\ UNCHANGED <<at, key, detected>>
  BY DEF ExtractDocument
<1> HIDE DEF result
<1> QED BY <1>1, <1>2, <1>3, <1>4, ComputedProgress DEF SegmentSteps

LEMMA StoreKeeps ==
  ASSUME IInv, NEW r \in Requests, Store(r)
  PROVE  IInv'
<1> USE DEF IInv
<1> DEFINE last == results[r][Len(results[r])]
           put  == [key |-> key[r], entry |-> last]
<1>1. /\ at[r] \in 1..Len(shape[r].segments) /\ KeyInHand(r)
      /\ results[r] # <<>> /\ Sound(key[r], last)
  BY DEF Store, Progress, SegmentSteps
<1>2. key[r] \in Keys /\ results[r] \in Seq(Results)
  BY <1>1 DEF KeyInHand, TypeOK
<1>3. last \in Results
  BY <1>1, <1>2
<1>4. Onward(r) /\ UNCHANGED <<shape, control, results, written, report, seen>>
  BY DEF Store
<1>5. \A x \in cache' : x \in cache \/ x = put
  BY DEF Store, Put
<1>6. cache' \in SUBSET [key : Keys, entry : Results]
  BY <1>2, <1>3, <1>5 DEF TypeOK
<1>7. CacheSound'
  <2>1. \A x \in cache : Sound(x.key, x.entry)
    BY DEF CacheSound
  <2>2. Sound(put.key, put.entry)
    BY <1>1
  <2>3. \A x \in cache' : Sound(x.key, x.entry)
    BY <1>5, <2>1, <2>2
  <2> QED BY <2>3 DEF CacheSound, Sound
<1>8. CacheUnique'
  <2> HIDE DEF last
  <2>1. CASE cache' = cache
    BY <2>1 DEF CacheUnique
  <2>2. CASE cache' = Put(key[r], last)
    BY <2>2 DEF CacheUnique, Put
  <2> QED BY <2>1, <2>2 DEF Store, last
<1>9. TypeOK' /\ \A q \in Requests : Progress(q)'
  BY <1>1, <1>4, <1>6, OnwardProgress DEF TypeOK, control
<1> QED BY <1>4, <1>7, <1>8, <1>9, Untroubled

LEMMA FinishKeeps ==
  ASSUME IInv, NEW r \in Requests, Finish(r)
  PROVE  IInv'
<1> USE DEF IInv
<1>1. report' \in [Requests -> Reports]
  <2>1. results[r] \in Seq(Results) /\ written[r] \in SUBSET Writes
    BY DEF TypeOK
  <2>2. /\ [Skipped("preview") EXCEPT !.results = results[r]] \in Reports
        /\ Skipped("content_already_optimal") \in Reports
    <3>1. Skipped("preview") \in Reports /\ Skipped("content_already_optimal") \in Reports
      BY DEF Skipped, Reports, SkipReasons
    <3> QED BY <2>1, <3>1 DEF Reports
  <2>3. [applied |-> TRUE, reason |-> "none", body |-> written[r], results |-> results[r]]
          \in Reports
    BY <2>1 DEF Reports
  <2>4. CASE Raise(r)
    BY <2>4 DEF TypeOK, Raise
  <2>5. CASE ~Raise(r)
    BY <2>2, <2>3, <2>5 DEF TypeOK, Finish, Answer
  <2> QED BY <2>4, <2>5
<1>2. pc' \in [Requests -> Steps \cup {"new", "queued", "done", "raised"}]
  BY DEF TypeOK, Finish, Raise, Answer, Go
<1>3. TypeOK'
  BY <1>1, <1>2 DEF TypeOK, Finish, Raise, control
<1>4. Progress(r)'
  BY DEF TypeOK, Finish, Raise, Answer, Go, Progress, SegmentSteps
<1>5. ASSUME NEW q \in Requests, q # r PROVE Progress(q)'
  BY <1>5, OthersProgress DEF TypeOK, Finish, Raise, Answer, Go
<1>6. UNCHANGED <<cache, written, shape>>
  BY DEF Finish, Raise
<1> QED BY <1>3, <1>4, <1>5, <1>6, Untroubled

-----------------------------------------------------------------------------
(* The toggles and the backend.                                            *)

\* A step that leaves every request's work alone.
LEMMA JobsUntouched ==
  ASSUME IInv, UNCHANGED <<shape, job>>, TypeOK', CacheSound', CacheUnique'
  PROVE  IInv'
<1> USE DEF IInv
<1>1. ASSUME NEW r \in Requests PROVE Progress(r)'
  <2>1. pc' = pc /\ at' = at /\ key' = key /\ detected' = detected /\ results' = results /\ shape' = shape
    BY DEF job
  <2>2. Progress(r)
    OBVIOUS
  <2>3. Segment(r)' = Segment(r) /\ Encoding(r)' = Encoding(r)
    BY <2>1 DEF Segment, Encoding
  <2>4. KeyInHand(r)' <=> KeyInHand(r)
    BY <2>1, <2>3 DEF KeyInHand
  <2> QED BY <2>1, <2>2, <2>3, <2>4 DEF Progress, Sound
<1>2. NeverGrows' /\ OwnContent'
  BY Untroubled DEF job
<1> QED BY <1>1, <1>2

LEMMA TogglesKeep ==
  ASSUME IInv,
         \/ \E enabled \in BOOLEAN : SetOptimization(enabled) \/ SetPrompt(enabled)
         \/ MoveTransformer
         \/ MoveSniffer
  PROVE  IInv'
<1>1. UNCHANGED <<cache, shape, job>>
  BY DEF SetOptimization, SetPrompt, MoveTransformer, MoveSniffer
<1>2. TypeOK'
  <2>1. ASSUME NEW enabled \in BOOLEAN, SetOptimization(enabled) PROVE TypeOK'
    BY <2>1, SizesAssumption DEF IInv, TypeOK, SetOptimization, job
  <2>2. ASSUME NEW enabled \in BOOLEAN, SetPrompt(enabled) PROVE TypeOK'
    BY <2>2, SizesAssumption DEF IInv, TypeOK, SetPrompt, job
  <2>3. CASE MoveTransformer
    BY <2>3 DEF IInv, TypeOK, MoveTransformer, job, Transformers
  <2>4. CASE MoveSniffer
    BY <2>4 DEF IInv, TypeOK, MoveSniffer, job, Sniffers
  <2> QED BY <2>1, <2>2, <2>3, <2>4
<1> QED BY <1>1, <1>2, JobsUntouched, Untroubled DEF IInv

LEMMA EvictKeeps ==
  ASSUME IInv, Evict
  PROVE  IInv'
<1>1. cache' \subseteq cache /\ UNCHANGED <<control, shape, job, seen>>
  BY DEF Evict
<1>2. TypeOK'
  BY <1>1 DEF IInv, TypeOK, control, job
<1>3. CacheSound' /\ CacheUnique'
  BY <1>1 DEF IInv, CacheSound, CacheUnique, Sound
<1> QED BY <1>1, <1>2, <1>3, JobsUntouched

LEMMA NextKeeps ==
  ASSUME IInv, [Next]_vars
  PROVE  IInv'
<1>1. ASSUME NEW r \in Requests, Transform(r) \/ Preview(r) \/ StartWorker(r) \/ Process(r)
      PROVE  IInv'
  BY <1>1, TransformKeeps, PreviewKeeps, StartWorkerKeeps, ParseKeeps, SkipSegmentKeeps,
     ComputeTextKeyKeeps, ComputeDocumentKeyKeeps, HitKeeps, MissKeeps, DetectTypeKeeps,
     PassThroughKeeps, ApplyTransformerKeeps, ExtractDocumentKeeps, StoreKeeps, FinishKeeps
  DEF Process
<1>2. CASE \/ \E enabled \in BOOLEAN : SetOptimization(enabled) \/ SetPrompt(enabled)
           \/ Toggle
  BY <1>2, TogglesKeep DEF Toggle
<1>3. CASE Evict
  BY <1>3, EvictKeeps
<1>4. CASE UNCHANGED vars
  <2>1. UNCHANGED <<control, cache, shape, job, seen>>
    BY <1>4 DEF vars
  <2>2. TypeOK'
    BY <2>1 DEF IInv, TypeOK, control, job
  <2> QED BY <2>1, <2>2, JobsUntouched, Untroubled DEF IInv
<1> QED BY <1>1, <1>2, <1>3, <1>4 DEF Next

-----------------------------------------------------------------------------
(* The theorems.                                                           *)

LEMMA Inductive == Spec => []IInv
<1>1. Init => IInv
  BY InitEstablishes
<1>2. IInv /\ [Next]_vars => IInv'
  BY NextKeeps
<1> QED BY <1>1, <1>2, PTL DEF Spec

\* The type invariant of the pipeline, for any number of requests and threads.
THEOREM TypeCorrect == Spec => []TypeOK
<1>1. IInv => TypeOK
  BY DEF IInv
<1> QED BY <1>1, Inductive, PTL

\* The never-grow guarantee for text, computed or cached, whatever worker
\* threads, toggles and evictions do.
THEOREM NeverGrowsAlways == Spec => []NeverGrows
<1>1. IInv => NeverGrows
  BY DEF IInv
<1> QED BY <1>1, Inductive, PTL

\* Requests that share the cache are never given each other's content.
THEOREM OwnContentAlways == Spec => []OwnContent
<1>1. IInv => OwnContent
  BY DEF IInv
<1> QED BY <1>1, Inductive, PTL

\* The cache never holds a failed transformation, nor two entries for one key.
THEOREM OnlyCompletedCachedAlways == Spec => []OnlyCompletedCached
<1>1. IInv => OnlyCompletedCached
  BY DEF IInv, CacheSound, Sound, OnlyCompletedCached
<1> QED BY <1>1, Inductive, PTL

\* Between toggles the flag, the registry and the detector agree, and while one
\* is under way they are as far apart as it has come.
InStep ==
  /\ promptFlag \in BOOLEAN
  /\ toggling \in {"idle", "registering", "sniffing"}
  /\ toggling \in {"idle", "sniffing"} => (promptFlag <=> Prompt \in registry)
  /\ toggling = "idle" => (promptFlag <=> PromptSniffer \in sniffers)

\* A toggle leaves the registry and the detector in lockstep, however its
\* steps interleave with requests.
THEOREM LockstepAlways == Spec => []Lockstep
<1>1. Init => InStep
  BY TransformersAssumption, SniffersAssumption DEF Init, InStep, Transformers, Sniffers
<1>2. ASSUME InStep, [Next]_vars PROVE InStep'
  <2> USE DEF InStep
  <2>1. CASE UNCHANGED control
    <3>1. UNCHANGED <<promptFlag, registry, sniffers, toggling>>
      BY <2>1 DEF control
    <3> QED BY <1>2, <3>1
  <2>2. CASE ~UNCHANGED control
    <3>1. \/ \E enabled \in BOOLEAN : SetOptimization(enabled) \/ SetPrompt(enabled)
          \/ MoveTransformer \/ MoveSniffer
      BY <1>2, <2>2 DEF Next, vars, Toggle, Evict, Process, Transform, Preview, StartWorker,
         Parse, SkipSegment, ComputeTextKey, ComputeDocumentKey, Hit, Miss, DetectType,
         PassThrough, ApplyTransformer, ExtractDocument, Store, Finish
    <3>2. ASSUME NEW enabled \in BOOLEAN, SetOptimization(enabled) PROVE InStep'
      BY <1>2, <3>2 DEF SetOptimization
    <3>3. ASSUME NEW enabled \in BOOLEAN, SetPrompt(enabled) PROVE InStep'
      BY <1>2, <3>3 DEF SetPrompt
    <3>4. CASE MoveTransformer
      BY <1>2, <3>4 DEF MoveTransformer
    <3>5. CASE MoveSniffer
      BY <1>2, <3>5 DEF MoveSniffer
    <3> QED BY <3>1, <3>2, <3>3, <3>4, <3>5
  <2> QED BY <2>1, <2>2
<1>3. InStep => Lockstep
  BY DEF InStep, Lockstep
<1> QED BY <1>1, <1>2, <1>3, PTL DEF Spec

-----------------------------------------------------------------------------
(* The report is about the body.                                           *)

Claimed(s) == {i \in DOMAIN s : s[i].changed}

\* A report that is true of the request's body.
Matches(r) ==
  /\ Cardinality(Claimed(report[r].results)) = Cardinality(report[r].body) \/ shape[r].preview
  /\ report[r].applied <=> report[r].body # {}
  /\ \A w \in report[r].body : \E i \in Claimed(report[r].results) :
       report[r].results[i].by = w.by /\ report[r].results[i].of = w.of

\* The steps before a result for the segment in hand.
Before == {"new", "queued", "parse", "key", "lookup", "detect", "apply", "extract"}

\* There are as many replacements as results that claim one, each is claimed, and those
\* written so far are of segments before the one in hand.
Traced(r) ==
  /\ IsFiniteSet(written[r]) /\ IsFiniteSet(Claimed(results[r]))
  /\ Cardinality(Claimed(results[r])) = Cardinality(written[r])
  /\ \A w \in written[r] : \E i \in Claimed(results[r]) :
       results[r][i].by = w.by /\ results[r][i].of = w.of
  /\ pc[r] \in Before =>
       \A w \in written[r] : w.at < at[r]
  /\ pc[r] = "store" => \A w \in written[r] : w.at <= at[r]
  /\ pc[r] = "done" => Matches(r)

LEMMA ClaimedAppend ==
  ASSUME NEW s \in Seq(Results), NEW x \in Results, IsFiniteSet(Claimed(s))
  PROVE  /\ IsFiniteSet(Claimed(Append(s, x)))
         /\ x.changed => /\ Cardinality(Claimed(Append(s, x))) = Cardinality(Claimed(s)) + 1
                         /\ Len(s) + 1 \in Claimed(Append(s, x)) /\ Append(s, x)[Len(s) + 1] = x
         /\ ~x.changed => Claimed(Append(s, x)) = Claimed(s)
         /\ \A i \in Claimed(s) : i \in Claimed(Append(s, x)) /\ Append(s, x)[i] = s[i]
<1> DEFINE t == Append(s, x)
<1>1. /\ DOMAIN s = 1..Len(s) /\ DOMAIN t = 1..Len(s) + 1 /\ Len(s) \in Nat
      /\ \A i \in 1..Len(s) : t[i] = s[i] /\ t[Len(s) + 1] = x
      /\ t[Len(s) + 1] = x
  OBVIOUS
<1> HIDE DEF t
<1>2. \A i \in Claimed(s) : i \in Claimed(t) /\ t[i] = s[i]
  BY <1>1 DEF Claimed
<1>3. CASE x.changed
  <2>1. Claimed(t) = Claimed(s) \cup {Len(s) + 1} /\ Len(s) + 1 \notin Claimed(s)
    BY <1>1, <1>3 DEF Claimed
  <2>2. IsFiniteSet(Claimed(t)) /\ Cardinality(Claimed(t)) = Cardinality(Claimed(s)) + 1
    BY <2>1, FS_AddElement
  <2> QED BY <1>1, <1>2, <1>3, <2>1, <2>2 DEF t
<1>4. CASE ~x.changed
  <2>1. Claimed(t) = Claimed(s)
    BY <1>1, <1>4 DEF Claimed
  <2> QED BY <1>2, <1>4, <2>1 DEF t
<1> QED BY <1>3, <1>4

\* A step of one request keeps the traces of the others.
LEMMA OthersTraced ==
  ASSUME NEW q \in Requests, Traced(q), UNCHANGED shape, pc'[q] = pc[q], at'[q] = at[q],
         results'[q] = results[q], written'[q] = written[q], report'[q] = report[q]
  PROVE  Traced(q)'
BY DEF Traced, Matches, Claimed

\* A step that neither replaces nor reports.
LEMMA QuietTraced ==
  ASSUME NEW r \in Requests, Traced(r), UNCHANGED shape, at'[r] = at[r],
         results'[r] = results[r], written'[r] = written[r],
         \/ pc[r] \in Before /\ pc'[r] \in Before \cup {"raised"}
         \/ pc'[r] = "raised"
         \/ pc'[r] = "done" /\ Matches(r)'
  PROVE  Traced(r)'
<1>1. /\ pc'[r] = "done" => Matches(r)'
      /\ pc'[r] # "store"
      /\ pc'[r] \in Before => pc[r] \in Before
  BY DEF Before
<1>2. Claimed(results[r])' = Claimed(results[r])
  BY DEF Claimed
<1> QED BY <1>1, <1>2 DEF Traced

LEMMA OnwardTraced ==
  ASSUME TypeOK, NEW r \in Requests, Traced(r), Onward(r), UNCHANGED <<shape, results, written>>,
         pc[r] \in SegmentSteps, at[r] \in 1..Len(shape[r].segments)
  PROVE  Traced(r)'
<1>1. /\ pc'[r] = "key" => at'[r] = at[r] + 1
      /\ pc'[r] \in {"key", "finish"} /\ at[r] \in Nat
  BY DEF TypeOK, Onward, Go
<1>2. \A w \in written[r] : w.at \in Nat /\ w.at <= at[r]
  BY <1>1 DEF TypeOK, Traced, SegmentSteps, Before, Writes
<1>3. pc'[r] = "key" => \A w \in written'[r] : w.at < at'[r]
  BY <1>1, <1>2
<1> QED BY <1>1, <1>3 DEF Traced, Claimed, Before

\* A result kept for the segment in hand.
LEMMA KeepTraced ==
  ASSUME TypeOK, NEW r \in Requests, Traced(r), NEW result \in Results, Keep(r, result),
         UNCHANGED shape, pc[r] \in Before,
         Onward(r) \/ (Go(r, "store") /\ UNCHANGED at)
  PROVE  Traced(r)'
<1> DEFINE new == [at |-> at[r], by |-> result.by, of |-> result.of]
<1>1. /\ results[r] \in Seq(Results) /\ results'[r] = Append(results[r], result)
      /\ written'[r] = IF result.changed THEN written[r] \cup {new} ELSE written[r]
      /\ at[r] \in Nat
  BY DEF TypeOK, Keep
<1>2. /\ new.at = at[r] /\ new.by = result.by /\ new.of = result.of
      /\ \A w \in written[r] : w.at < at[r] /\ w.at \in Nat
  BY DEF Traced, Before, TypeOK, Writes
<1> HIDE DEF new
<1>3. new \notin written[r] /\ \A w \in written'[r] : w.at <= at[r]
  BY <1>1, <1>2
<1>4. IsFiniteSet(written[r]) /\ IsFiniteSet(Claimed(results[r])) /\ Cardinality(Claimed(results[r])) = Cardinality(written[r])
  BY DEF Traced
<1>5. IsFiniteSet(written'[r]) /\ Cardinality(written'[r]) = IF result.changed THEN Cardinality(written[r]) + 1 ELSE Cardinality(written[r])
  <2>1. CASE result.changed
    <3>1. written'[r] = written[r] \cup {new}
      BY <1>1, <2>1
    <3>2. /\ IsFiniteSet(written[r] \cup {new})
          /\ Cardinality(written[r] \cup {new}) = Cardinality(written[r]) + 1
      BY <1>3, <1>4, FS_AddElement
    <3> QED BY <2>1, <3>1, <3>2
  <2>2. CASE ~result.changed
    <3>1. written'[r] = written[r]
      BY <1>1, <2>2
    <3> QED BY <1>4, <2>2, <3>1
  <2> QED BY <2>1, <2>2
<1>6. /\ IsFiniteSet(Claimed(results'[r]))
      /\ result.changed => /\ Cardinality(Claimed(results'[r])) = Cardinality(Claimed(results[r])) + 1
                           /\ Len(results[r]) + 1 \in Claimed(results'[r])
                           /\ results'[r][Len(results[r]) + 1] = result
      /\ ~result.changed => Claimed(results'[r]) = Claimed(results[r])
      /\ \A i \in Claimed(results[r]) : i \in Claimed(results'[r]) /\ results'[r][i] = results[r][i]
  <2> DEFINE old == results[r]
             now == Append(old, result)
  <2>1. old \in Seq(Results) /\ IsFiniteSet(Claimed(old)) /\ results'[r] = now
    BY <1>1, <1>4
  <2> HIDE DEF old
  <2>2. /\ IsFiniteSet(Claimed(now))
        /\ result.changed => /\ Cardinality(Claimed(now)) = Cardinality(Claimed(old)) + 1
                             /\ Len(old) + 1 \in Claimed(now) /\ now[Len(old) + 1] = result
        /\ ~result.changed => Claimed(now) = Claimed(old)
        /\ \A i \in Claimed(old) : i \in Claimed(now) /\ now[i] = old[i]
    BY <2>1, ClaimedAppend
  <2> HIDE DEF now
  <2>3. old = results[r]
    BY DEF old
  <2> QED BY ONLY <2>1, <2>2, <2>3
<1>7. \A w \in written'[r] : \E i \in Claimed(results'[r]) :
        results'[r][i].by = w.by /\ results'[r][i].of = w.of
  <2>1. ASSUME NEW w \in written[r]
        PROVE  \E i \in Claimed(results'[r]) : results'[r][i].by = w.by /\ results'[r][i].of = w.of
    BY <1>6 DEF Traced
  <2>2. ASSUME result.changed
        PROVE  \E i \in Claimed(results'[r]) : results'[r][i].by = new.by /\ results'[r][i].of = new.of
    BY <1>2, <1>6, <2>2
  <2> QED BY <1>1, <2>1, <2>2
<1>8. /\ pc'[r] \in {"key", "finish", "store"}
      /\ pc'[r] = "key" => at'[r] = at[r] + 1
      /\ pc'[r] = "store" => at'[r] = at[r]
  BY DEF TypeOK, Onward, Go
<1>9. /\ pc'[r] = "key" => \A w \in written'[r] : w.at < at'[r]
      /\ pc'[r] = "store" => \A w \in written'[r] : w.at <= at'[r]
  <2>1. \A w \in written'[r] : w.at \in Nat
    BY <1>1, <1>2
  <2> QED BY <1>1, <1>3, <1>8, <2>1
<1>10. /\ pc'[r] \in Before => pc'[r] = "key"
       /\ pc'[r] # "done"
  BY <1>8 DEF Before
<1>11. Cardinality(Claimed(results'[r])) = Cardinality(written'[r])
  BY <1>4, <1>5, <1>6
<1>12. Claimed(results[r])' = Claimed(results'[r])
  BY DEF Claimed
<1> QED BY <1>5, <1>6, <1>7, <1>9, <1>10, <1>11, <1>12 DEF Traced

\* A report that forwards the original body is true of it.
LEMMA SkippedMatches ==
  ASSUME NEW r \in Requests, NEW reason, report'[r] = Skipped(reason)
  PROVE  Matches(r)'
<1>1. report'[r].results = <<>> /\ report'[r].body = {} /\ report'[r].applied = FALSE
  BY DEF Skipped
<1>2. Claimed(report[r].results)' = {} /\ Claimed(report'[r].results) = {}
  BY <1>1 DEF Claimed
<1> QED BY <1>1, <1>2 DEF Matches

\* The report of a finished request is true of its body.
LEMMA FinishTraced ==
  ASSUME TypeOK, NEW r \in Requests, Traced(r), Finish(r)
  PROVE  Traced(r)'
<1>1. pc[r] = "finish" /\ UNCHANGED <<shape, at, results, written>>
  BY DEF Finish, Raise
<1>2. CASE Unserializable(r)
  <2>1. pc'[r] = "raised"
    BY <1>2 DEF Finish, Raise, Go, TypeOK
  <2> QED BY <1>1, <2>1, QuietTraced
<1>3. CASE ~Unserializable(r)
  <2>1. pc'[r] = "done"
    BY <1>3 DEF Finish, Answer, Go, TypeOK
  <2>2. CASE shape[r].preview
    <3>1. report'[r] = [Skipped("preview") EXCEPT !.results = results[r]]
      BY <1>3, <2>2 DEF Finish, Answer, TypeOK
    <3>2. report'[r].body = {} /\ report'[r].applied = FALSE
      BY <3>1 DEF Skipped
    <3>3. Matches(r)'
      BY <1>1, <2>2, <3>2 DEF Matches
    <3> QED BY <1>1, <2>1, <3>3, QuietTraced
  <2>3. CASE ~shape[r].preview /\ ~Changed(r)
    <3>1. report'[r] = Skipped("content_already_optimal")
      BY <1>3, <2>3 DEF Finish, Answer, TypeOK
    <3> QED BY <1>1, <2>1, <3>1, SkippedMatches, QuietTraced
  <2>4. CASE ~shape[r].preview /\ Changed(r)
    <3>1. report'[r] = [applied |-> TRUE, reason |-> "none", body |-> written[r], results |-> results[r]]
      BY <1>3, <2>4 DEF Finish, Answer, TypeOK
    <3>2. Claimed(results[r]) # {}
      BY <2>4 DEF Changed, Claimed
    <3>3. written[r] # {}
      BY <3>2, FS_EmptySet DEF Traced
    <3>4. /\ report'[r].results = results[r] /\ report'[r].body = written[r]
          /\ report'[r].applied = TRUE
      BY <3>1
    <3>5. Claimed(report[r].results)' = Claimed(results[r])
      BY <3>4 DEF Claimed
    <3>6. Matches(r)'
      BY <3>3, <3>4, <3>5 DEF Matches, Traced
    <3> QED BY <1>1, <2>1, <3>6, QuietTraced
  <2> QED BY <2>2, <2>3, <2>4
<1> QED BY <1>2, <1>3

\* Every step of a request leaves its report true of its body.
LEMMA ProcessTraced ==
  ASSUME IInv, NEW r \in Requests, Traced(r),
         Transform(r) \/ Preview(r) \/ StartWorker(r) \/ Process(r)
  PROVE  Traced(r)'
<1>1. /\ TypeOK
      /\ pc[r] \in SegmentSteps => at[r] \in 1..Len(shape[r].segments)
  BY DEF IInv, Progress
<1>2. /\ Encoding(r) \in Encodings
      /\ pc[r] \in SegmentSteps => Segment(r) \in Segments /\ (Segment(r) \in Text <=> Segment(r) \notin Documents)
  BY <1>1, ShapeFacts, SegmentFacts DEF TypeOK
<1>3. CASE Transform(r)
  <2>1. UNCHANGED <<shape, at, results, written>> /\ pc[r] = "new"
    BY <1>3 DEF Transform
  <2>2. CASE Decide(shape[r], optimizing) = Allow
    BY <1>1, <1>3, <2>1, <2>2, QuietTraced DEF Transform, Go, Before, TypeOK
  <2>3. CASE Decide(shape[r], optimizing) # Allow
    <3>1. pc'[r] = "done" /\ report'[r] = Skipped(Decide(shape[r], optimizing))
      BY <1>1, <1>3, <2>3 DEF Transform, Answer, Go, TypeOK
    <3> QED BY <2>1, <3>1, SkippedMatches, QuietTraced
  <2> QED BY <2>2, <2>3
<1>4. CASE Parse(r)
  <2>1. UNCHANGED <<shape, at, results, written>> /\ pc[r] = "parse"
    BY <1>4 DEF Parse
  <2>2. CASE Rejection(shape[r]) = "none"
    BY <1>1, <1>4, <2>1, <2>2, QuietTraced DEF Parse, Go, Before, TypeOK
  <2>3. CASE Rejection(shape[r]) # "none"
    <3>1. pc'[r] = "done" /\ report'[r] = Skipped(Rejection(shape[r]))
      BY <1>1, <1>4, <2>3 DEF Parse, Answer, Go, TypeOK
    <3> QED BY <2>1, <3>1, SkippedMatches, QuietTraced
  <2> QED BY <2>2, <2>3
<1>5. CASE \/ Preview(r) \/ StartWorker(r) \/ ComputeTextKey(r) \/ ComputeDocumentKey(r)
           \/ Miss(r) \/ DetectType(r)
  <2>1. UNCHANGED <<shape, at, results, written>> /\ pc[r] \in Before /\ pc'[r] \in Before \cup {"raised"}
    BY <1>1, <1>5 DEF Preview, StartWorker, ComputeTextKey, ComputeDocumentKey, Miss, DetectType,
       Raise, Go, Before, TypeOK
  <2> QED BY <2>1, QuietTraced
<1>6. CASE SkipSegment(r) \/ PassThrough(r) \/ Store(r)
  <2>1. Onward(r) /\ UNCHANGED <<shape, results, written>> /\ pc[r] \in SegmentSteps
    BY <1>6 DEF SkipSegment, PassThrough, Store, SegmentSteps
  <2> QED BY <1>1, <2>1, OnwardTraced
<1>7. CASE Hit(r)
  <2>1. PICK x \in Cached(key[r]) : Keep(r, [x.entry EXCEPT !.hit = TRUE])
    BY <1>7 DEF Hit
  <2>2. [x.entry EXCEPT !.hit = TRUE] \in Results
    <3>1. x.entry \in Results
      BY <1>1 DEF TypeOK, Cached
    <3> QED BY <3>1 DEF Results
  <2>3. Onward(r) /\ UNCHANGED shape /\ pc[r] \in Before
    BY <1>7 DEF Hit, Before
  <2> QED BY <1>1, <2>1, <2>2, <2>3, KeepTraced
<1>8. CASE ApplyTransformer(r)
  <2>1. pc[r] = "apply" /\ UNCHANGED shape /\ Segment(r) \in Text /\ detected[r] \in Types
    BY <1>8 DEF ApplyTransformer, IInv, Progress
  <2>2. CASE Segment(r) \in Unencodable
    <3>1. UNCHANGED <<at, results, written>> /\ pc'[r] = "raised"
      BY <1>1, <1>8, <2>2 DEF ApplyTransformer, Raise, Go, TypeOK
    <3> QED BY <2>1, <3>1, QuietTraced
  <2>3. CASE Segment(r) \notin Unencodable
    <3>1. Chosen(r) \in Transformers
      BY <1>1, <1>8, SelectReturns DEF TypeOK, ApplyTransformer, NoOutput, Chosen
    <3>2. Measured(Chosen(r), Segment(r), Encoding(r)) \in Results
      BY <1>2, <2>1, <3>1, MeasuredReturns
    <3>3. /\ Keep(r, Measured(Chosen(r), Segment(r), Encoding(r)))
          /\ Onward(r) \/ (Go(r, "store") /\ UNCHANGED at)
      BY <1>8, <2>3 DEF ApplyTransformer
    <3> QED BY <1>1, <2>1, <3>2, <3>3, KeepTraced DEF Before
  <2> QED BY <2>2, <2>3
<1>9. CASE ExtractDocument(r)
  <2>1. pc[r] = "extract" /\ UNCHANGED shape /\ Segment(r) \in Documents
    BY <1>9 DEF ExtractDocument, IInv, Progress
  <2>2. Extracted(Segment(r), Encoding(r)) \in Results
    BY <1>2, <2>1, ExtractedReturns
  <2>3. /\ Keep(r, Extracted(Segment(r), Encoding(r)))
        /\ Onward(r) \/ (Go(r, "store") /\ UNCHANGED at)
    BY <1>9 DEF ExtractDocument
  <2> QED BY <1>1, <2>1, <2>2, <2>3, KeepTraced DEF Before
<1>10. CASE Finish(r)
  BY <1>1, <1>10, FinishTraced
<1> QED BY <1>3, <1>4, <1>5, <1>6, <1>7, <1>8, <1>9, <1>10 DEF Process

\* No step of one request touches another's.
LEMMA OthersUntouched ==
  ASSUME TypeOK, NEW r \in Requests, Transform(r) \/ Preview(r) \/ StartWorker(r) \/ Process(r)
  PROVE  /\ UNCHANGED shape
         /\ \A q \in Requests \ {r} :
              /\ pc'[q] = pc[q] /\ at'[q] = at[q] /\ key'[q] = key[q] /\ detected'[q] = detected[q]
              /\ results'[q] = results[q] /\ written'[q] = written[q] /\ report'[q] = report[q]
<1> SUFFICES ASSUME NEW q \in Requests, q # r
             PROVE  /\ UNCHANGED shape
                    /\ pc'[q] = pc[q] /\ at'[q] = at[q] /\ key'[q] = key[q] /\ detected'[q] = detected[q]
                    /\ results'[q] = results[q] /\ written'[q] = written[q] /\ report'[q] = report[q]
  <2>1. UNCHANGED shape
    BY DEF Transform, Preview, StartWorker, Process, Parse, SkipSegment, ComputeTextKey,
       ComputeDocumentKey, Hit, Miss, DetectType, PassThrough, ApplyTransformer,
       ExtractDocument, Store, Finish
  <2> QED BY <2>1
<1> USE DEF TypeOK, Go, Raise, Answer, Onward, Keep
<1>1. CASE Transform(r) \/ Preview(r) \/ StartWorker(r) \/ Parse(r)
  BY <1>1 DEF Transform, Preview, StartWorker, Parse
<1>2. CASE SkipSegment(r) \/ ComputeTextKey(r) \/ ComputeDocumentKey(r)
  BY <1>2 DEF SkipSegment, ComputeTextKey, ComputeDocumentKey
<1>3. CASE Hit(r) \/ Miss(r) \/ DetectType(r) \/ PassThrough(r)
  BY <1>3 DEF Hit, Miss, DetectType, PassThrough
<1>4. CASE ApplyTransformer(r)
  BY <1>4 DEF ApplyTransformer
<1>5. CASE ExtractDocument(r)
  BY <1>5 DEF ExtractDocument
<1>6. CASE Store(r) \/ Finish(r)
  BY <1>6 DEF Store, Finish
<1> QED BY <1>1, <1>2, <1>3, <1>4, <1>5, <1>6 DEF Process

AllTraced == \A r \in Requests : Traced(r)

LEMMA TracedInductive ==
  /\ Init => AllTraced
  /\ IInv /\ AllTraced /\ [Next]_vars => AllTraced'
<1>1. ASSUME Init PROVE AllTraced
  <2>1. ASSUME NEW r \in Requests PROVE Traced(r)
    <3>1. pc[r] = "new" /\ results[r] = <<>> /\ written[r] = {}
      BY <1>1 DEF Init
    <3>2. Claimed(results[r]) = {}
      BY <3>1 DEF Claimed
    <3> QED BY <3>1, <3>2, FS_EmptySet DEF Traced
  <2> QED BY <2>1 DEF AllTraced
<1>2. ASSUME IInv, AllTraced, [Next]_vars PROVE AllTraced'
  <2>1. ASSUME NEW r \in Requests, Transform(r) \/ Preview(r) \/ StartWorker(r) \/ Process(r)
        PROVE  AllTraced'
    <3>1. TypeOK /\ Traced(r)
      BY <1>2 DEF IInv, AllTraced
    <3>2. Traced(r)'
      BY <1>2, <2>1, <3>1, ProcessTraced
    <3>3. ASSUME NEW q \in Requests, q # r PROVE Traced(q)'
      BY <1>2, <2>1, <3>1, <3>3, OthersUntouched, OthersTraced DEF AllTraced
    <3> QED BY <3>2, <3>3 DEF AllTraced
  <2>2. CASE \/ \E enabled \in BOOLEAN : SetOptimization(enabled) \/ SetPrompt(enabled)
             \/ Toggle \/ Evict \/ UNCHANGED vars
    <3>1. UNCHANGED <<shape, pc, at, results, written, report>>
      BY <2>2 DEF SetOptimization, SetPrompt, Toggle, MoveTransformer, MoveSniffer, Evict, vars, job
    <3> QED BY <1>2, <3>1, OthersTraced DEF AllTraced
  <2> QED BY <1>2, <2>1, <2>2 DEF Next
<1> QED BY <1>1, <1>2

\* The report describes the body that is forwarded, whatever the cache served and
\* however requests and toggles interleave.
THEOREM ReportAlwaysMatches == Spec => []ReportMatchesBody
<1>1. AllTraced => ReportMatchesBody
  BY DEF AllTraced, Traced, Matches, Claimed, ReportMatchesBody
<1> QED BY <1>1, TracedInductive, Inductive, PTL DEF Spec

-----------------------------------------------------------------------------
(* One request at a time: what holds while no request is offloaded.         *)

LEMMA DecideRefuses ==
  ASSUME NEW request, NEW enabled
  PROVE  /\ Decide(request, enabled) = Allow => ~(request.size > MaxBodyBytes)
         /\ Decide(request, enabled) # Allow =>
              Decide(request, enabled) \in
                {"optimization_disabled", "method_not_eligible", "empty_body", "body_too_large",
                 "content_type_not_eligible", "endpoint_not_eligible"}
<1> DEFINE rules   == Objections(request, enabled)
           against == {i \in DOMAIN rules : rules[i].holds}
           reasons == {"optimization_disabled", "method_not_eligible", "empty_body", "body_too_large",
                       "content_type_not_eligible", "endpoint_not_eligible"}
<1>1. DOMAIN rules = 1..6 /\ \A i \in 1..6 : rules[i].reason \in reasons
  BY DEF Objections
<1>2. CASE against = {}
  <2>1. ~rules[4].holds
    BY <1>1, <1>2
  <2>2. ~(request.size > MaxBodyBytes)
    BY <2>1 DEF Objections
  <2> QED BY <1>2, <2>2 DEF Decide
<1>3. CASE against # {}
  <2>1. against \in SUBSET Nat
    BY <1>1
  <2>2. PICK least \in against : \A i \in against : least <= i
    BY <1>3, <2>1, LeastNatural
  <2>3. Min(against) \in 1..6
    BY <1>1, <2>2 DEF Min
  <2>4. Decide(request, enabled) = rules[Min(against)].reason
    BY <1>3 DEF Decide
  <2>5. Decide(request, enabled) \in reasons /\ Allow \notin reasons
    BY <1>1, <2>3, <2>4 DEF Allow
  <2> QED BY <2>5
<1> QED BY <1>2, <1>3

\* The registry and the detector are at one of their two settings, nothing waits for
\* a thread, and the one request under way holds the loop, so that no toggle moves.
InLine ==
  /\ InStep
  /\ registry \in {BaseTransformers, Transformers}
  /\ sniffers \in {BaseSniffers, Sniffers}
  /\ \A r \in Requests : pc[r] # "queued"
  /\ \A r \in Requests : Running(r) => ~Offloaded(r) /\ toggling = "idle"
  /\ \A q, r \in Requests : Running(q) /\ Running(r) => q = r

\* The key of the segment in hand and what is made of it, as things stand now.
KeyOf(r) ==
  IF Segment(r) \in Documents THEN DocumentKey(Segment(r), Encoding(r))
                              ELSE TextKey(Segment(r), registry, Encoding(r))
Rendering(r) ==
  IF Segment(r) \in Documents THEN Extracted(Segment(r), Encoding(r))
  ELSE Measured(Select(registry, Detect(sniffers, Segment(r))), Segment(r), Encoding(r))

\* What the request under way has computed for its segment is still up to date.
UpToDate(r) ==
  /\ pc[r] \in SegmentSteps \ {"key"} =>
       /\ Segment(r) \notin Short
       /\ Segment(r) \in Documents => DocumentsEnabled
       /\ CacheEnabled => key[r] = KeyOf(r) /\ Segment(r) \notin Unencodable
  /\ pc[r] = "apply" => detected[r] = Detect(sniffers, Segment(r))
  /\ pc[r] = "store" => results[r][Len(results[r])] = Rendering(r)

TextNamed ==
  \A x \in cache : x.key.kind = "text" =>
    x.entry = Measured(Select(x.key.version, Detect(SniffersFor(x.key.version), x.key.content)),
                       x.key.content, x.key.encoding)

Alone ==
  /\ InLine
  /\ \A r \in Requests : UpToDate(r)
  /\ TextNamed

LEMMA LoopIsStable == ASSUME [Next]_vars PROVE UNCHANGED shape /\ (OnLoop' <=> OnLoop)
<1>1. UNCHANGED shape
  BY DEF Next, vars, Toggle, Evict, Process, Transform, Preview, StartWorker, Parse, SkipSegment,
     ComputeTextKey, ComputeDocumentKey, Hit, Miss, DetectType, PassThrough, ApplyTransformer,
     ExtractDocument, Store, Finish, SetOptimization, SetPrompt, MoveTransformer, MoveSniffer
<1> QED BY <1>1 DEF OnLoop

\* A request on the loop starts when nothing else is under way, and goes on alone.
LEMMA RequestInLine ==
  ASSUME TypeOK, OnLoop, InLine, NEW r \in Requests,
         Transform(r) \/ Preview(r) \/ StartWorker(r) \/ Process(r)
  PROVE  /\ InLine' /\ UNCHANGED control
         /\ \A q \in Requests \ {r} : ~Running(q) /\ ~Running(q)'
<1>1. UNCHANGED <<control, shape>>
  BY DEF Transform, Preview, StartWorker, Process, Parse, SkipSegment, ComputeTextKey,
     ComputeDocumentKey, Hit, Miss, DetectType, PassThrough, ApplyTransformer,
     ExtractDocument, Store, Finish
<1>2. \A q \in Requests \ {r} : pc'[q] = pc[q]
  BY OthersUntouched
<1>3. ~StartWorker(r)
  BY DEF StartWorker, InLine
<1>4. /\ toggling = "idle" /\ \A q \in Requests \ {r} : ~Running(q)
      /\ pc'[r] # "queued"
      /\ pc'[r] \in Steps => ~Offloaded(r)
  <2>1. CASE Transform(r)
    <3>1. toggling = "idle" /\ \A q \in Requests : ~Running(q)
      BY <2>1 DEF Transform, LoopFree, InLine
    <3>2. Decide(shape[r], optimizing) = Allow => ~Offloaded(r)
      <4>1. shape[r].size \in Nat
        BY ShapesAssumption DEF TypeOK, RequestShape
      <4> QED BY <4>1, DecideRefuses, SizesAssumption DEF OnLoop, Offloaded
    <3>3. pc'[r] \in {"parse", "done"} /\ (pc'[r] = "parse" => ~Offloaded(r))
      BY <2>1, <3>2 DEF Transform, Answer, Go, TypeOK
    <3> QED BY <3>1, <3>3 DEF Steps
  <2>2. CASE Preview(r)
    <3>1. toggling = "idle" /\ \A q \in Requests : ~Running(q)
      BY <2>2 DEF Preview, LoopFree, InLine
    <3>2. ~Offloaded(r)
      BY <2>2, ShapesAssumption, SizesAssumption DEF Preview, TypeOK, Offloaded
    <3> QED BY <2>2, <3>1, <3>2 DEF Preview, Go, TypeOK
  <2>3. CASE Process(r)
    <3>1. Running(r)
      BY <2>3 DEF Process, Parse, SkipSegment, ComputeTextKey,
         ComputeDocumentKey, Hit, Miss, DetectType, PassThrough, ApplyTransformer,
         ExtractDocument, Store, Finish, Running, Steps
    <3>2. pc'[r] # "queued"
      BY <2>3 DEF Process, Parse, SkipSegment, ComputeTextKey,
         ComputeDocumentKey, Hit, Miss, DetectType, PassThrough, ApplyTransformer,
         ExtractDocument, Store, Finish, Go, Raise, Answer, Onward, TypeOK
    <3> QED BY <3>1, <3>2 DEF InLine
  <2> QED BY <1>3, <2>1, <2>2, <2>3
<1>5. \A q \in Requests \ {r} : ~Running(q) /\ ~Running(q)'
  BY <1>2, <1>4 DEF Running
<1>6. \A q \in Requests : pc'[q] # "queued"
  BY <1>2, <1>4 DEF InLine
<1>7. UNCHANGED <<registry, sniffers, toggling, promptFlag>> /\ InStep' 
  BY <1>1 DEF control, InLine, InStep
<1>8. \A q \in Requests : Running(q)' => q = r /\ ~Offloaded(q)' /\ toggling' = "idle"
  BY <1>1, <1>4, <1>5, <1>7 DEF Running, Offloaded
<1> QED BY <1>1, <1>5, <1>6, <1>7, <1>8 DEF InLine

\* Toggles only move while no request holds the loop.
LEMMA ToggleInLine ==
  ASSUME TypeOK, InLine,
         \/ \E enabled \in BOOLEAN : SetOptimization(enabled) \/ SetPrompt(enabled)
         \/ Toggle
  PROVE  /\ InLine' /\ UNCHANGED <<cache, shape, job>>
         /\ \A r \in Requests : ~Running(r) /\ ~Running(r)'
<1>1. UNCHANGED <<cache, shape, job>>
  BY DEF SetOptimization, SetPrompt, Toggle, MoveTransformer, MoveSniffer
<1>2. \A r \in Requests : ~Running(r)
  BY DEF SetOptimization, SetPrompt, Toggle, MoveTransformer, MoveSniffer, LoopFree, InLine
<1>3. \A r \in Requests : ~Running(r)' /\ pc'[r] # "queued"
  BY <1>1, <1>2 DEF job, Running, InLine
<1>4. InStep'
  BY DEF InLine, InStep, SetOptimization, SetPrompt, Toggle, MoveTransformer, MoveSniffer,
     Transformers, Sniffers
<1>5. registry' \in {BaseTransformers, Transformers}
  <2>1. /\ BaseTransformers \cup {Prompt} = Transformers /\ Transformers \cup {Prompt} = Transformers
        /\ BaseTransformers \ {Prompt} = BaseTransformers /\ Transformers \ {Prompt} = BaseTransformers
    BY TransformersAssumption DEF Transformers
  <2>2. registry' \in {registry, registry \cup {Prompt}, registry \ {Prompt}}
    BY DEF SetOptimization, SetPrompt, Toggle, MoveTransformer, MoveSniffer
  <2>3. registry \in {BaseTransformers, Transformers}
    BY DEF InLine
  <2> QED BY ONLY <2>1, <2>2, <2>3
<1>6. sniffers' \in {BaseSniffers, Sniffers}
  <2>1. /\ BaseSniffers \cup {PromptSniffer} = Sniffers /\ Sniffers \cup {PromptSniffer} = Sniffers
        /\ BaseSniffers \ {PromptSniffer} = BaseSniffers /\ Sniffers \ {PromptSniffer} = BaseSniffers
    BY SniffersAssumption DEF Sniffers
  <2>2. sniffers' \in {sniffers, sniffers \cup {PromptSniffer}, sniffers \ {PromptSniffer}}
    BY DEF SetOptimization, SetPrompt, Toggle, MoveTransformer, MoveSniffer
  <2>3. sniffers \in {BaseSniffers, Sniffers}
    BY DEF InLine
  <2> QED BY ONLY <2>1, <2>2, <2>3
<1> QED BY <1>1, <1>2, <1>3, <1>4, <1>5, <1>6 DEF InLine

\* While no toggle is under way the detector has the sniffers of the registry.
LEMMA SniffersOfRegistry ==
  ASSUME InLine, toggling = "idle"
  PROVE  /\ sniffers = SniffersFor(registry)
         /\ (Prompt \in registry) => registry = Transformers /\ sniffers = Sniffers
         /\ ~(Prompt \in registry) => registry = BaseTransformers /\ sniffers = BaseSniffers
BY TransformersAssumption, SniffersAssumption
DEF InLine, InStep, SniffersFor, Transformers, Sniffers

\* A request under way keeps what it computed for its segment up to date.
LEMMA RequestUpToDate ==
  ASSUME IInv, UNCHANGED control, NEW r \in Requests, UpToDate(r),
         Transform(r) \/ Preview(r) \/ StartWorker(r) \/ Process(r)
  PROVE  UpToDate(r)'
<1>1. TypeOK /\ Progress(r) /\ UNCHANGED <<registry, sniffers>>
  BY DEF IInv, control
<1>2. pc[r] \in SegmentSteps =>
        /\ Segment(r) \in Segments /\ (Segment(r) \in Text <=> Segment(r) \notin Documents)
        /\ Segment(r) \in Documents => Segment(r) \notin Short /\ Segment(r) \notin Unencodable
  BY <1>1, SegmentFacts, ContentsAssumption DEF TypeOK, Progress
<1>3. CASE pc'[r] \notin SegmentSteps \ {"key"}
  BY <1>3 DEF UpToDate, SegmentSteps
<1>4. CASE ComputeTextKey(r) /\ pc'[r] \in SegmentSteps \ {"key"}
  <2>1. /\ pc[r] = "key" /\ Segment(r) \in Text /\ Segment(r) \notin Short /\ Segment(r) \notin Documents
        /\ UNCHANGED <<shape, at>> /\ pc'[r] \in {"detect", "lookup"}
        /\ CacheEnabled => /\ Segment(r) \notin Unencodable
                           /\ key'[r] = TextKey(Segment(r), registry, Encoding(r))
    BY <1>1, <1>2, <1>4 DEF ComputeTextKey, Raise, Go, TypeOK, SegmentSteps
  <2> QED BY <1>1, <2>1 DEF UpToDate, KeyOf, Segment, Encoding
<1>5. CASE ComputeDocumentKey(r)
  <2>1. /\ pc[r] = "key" /\ Segment(r) \in Documents /\ DocumentsEnabled
        /\ Segment(r) \notin Short /\ Segment(r) \notin Unencodable
        /\ UNCHANGED <<shape, at>> /\ pc'[r] \in {"extract", "lookup"}
        /\ CacheEnabled => key'[r] = DocumentKey(Segment(r), Encoding(r))
    BY <1>1, <1>2, <1>5 DEF ComputeDocumentKey, Go, TypeOK, SegmentSteps
  <2> QED BY <1>1, <2>1 DEF UpToDate, KeyOf, Segment, Encoding
<1>6. CASE Miss(r)
  <2>1. /\ pc[r] = "lookup" /\ pc'[r] \in {"extract", "detect"}
        /\ UNCHANGED <<shape, at, key>>
    BY <1>1, <1>6 DEF Miss, Go, TypeOK
  <2> QED BY <1>1, <2>1 DEF UpToDate, KeyOf, Segment, Encoding, SegmentSteps
<1>7. CASE DetectType(r)
  <2>1. /\ pc[r] = "detect" /\ pc'[r] = "apply" /\ UNCHANGED <<shape, at, key>>
        /\ detected'[r] = Detect(sniffers, Segment(r))
    BY <1>1, <1>7 DEF DetectType, Go, TypeOK
  <2>2. Segment(r)' = Segment(r) /\ KeyOf(r)' = KeyOf(r)
    BY <1>1, <2>1 DEF KeyOf, Segment, Encoding
  <2>3. detected'[r] = Detect(sniffers, Segment(r))'
    BY <1>1, <2>1, <2>2
  <2> QED BY <2>1, <2>2, <2>3 DEF UpToDate, SegmentSteps
<1>8. CASE ApplyTransformer(r) /\ pc'[r] = "store"
  <2> DEFINE result == Measured(Chosen(r), Segment(r), Encoding(r))
  <2>1. /\ pc[r] = "apply" /\ Segment(r) \in Text /\ Segment(r) \notin Documents
        /\ UNCHANGED <<shape, at, key>> /\ Keep(r, result)
    BY <1>1, <1>2, <1>8 DEF ApplyTransformer, Raise, Onward, Go, TypeOK, Progress, SegmentSteps
  <2>2. result = Rendering(r)
    BY <2>1 DEF UpToDate, Rendering, Chosen
  <2>3. Segment(r)' = Segment(r) /\ KeyOf(r)' = KeyOf(r) /\ Rendering(r)' = Rendering(r)
    BY <1>1, <2>1 DEF KeyOf, Rendering, Segment, Encoding
  <2> HIDE DEF result
  <2>4. results'[r][Len(results'[r])] = result
    BY <1>1, <2>1 DEF Keep, TypeOK
  <2> QED BY <1>8, <2>1, <2>2, <2>3, <2>4 DEF UpToDate, SegmentSteps
<1>9. CASE ExtractDocument(r) /\ pc'[r] = "store"
  <2> DEFINE result == Extracted(Segment(r), Encoding(r))
  <2>1. /\ pc[r] = "extract" /\ Segment(r) \in Documents
        /\ UNCHANGED <<shape, at, key>> /\ Keep(r, result)
    BY <1>1, <1>2, <1>9 DEF ExtractDocument, Onward, Go, TypeOK, Progress, SegmentSteps
  <2>2. result = Rendering(r)
    BY <2>1 DEF Rendering
  <2>3. Segment(r)' = Segment(r) /\ KeyOf(r)' = KeyOf(r) /\ Rendering(r)' = Rendering(r)
    BY <1>1, <2>1 DEF KeyOf, Rendering, Segment, Encoding
  <2> HIDE DEF result
  <2>4. results'[r][Len(results'[r])] = result
    BY <1>1, <2>1 DEF Keep, TypeOK
  <2> QED BY <1>9, <2>1, <2>2, <2>3, <2>4 DEF UpToDate, SegmentSteps
<1>10. CASE \/ Transform(r) \/ Preview(r) \/ StartWorker(r) \/ Parse(r) \/ SkipSegment(r) \/ Hit(r)
            \/ PassThrough(r) \/ Store(r) \/ Finish(r)
  <2>1. pc'[r] \notin SegmentSteps \ {"key"}
    BY <1>1, <1>10 DEF Transform, Preview, StartWorker, Parse, SkipSegment, Hit, PassThrough, Store,
       Finish, Onward, Go, Raise, Answer, TypeOK, SegmentSteps
  <2> QED BY <1>3, <2>1
<1>11. CASE (ApplyTransformer(r) \/ ExtractDocument(r)) /\ pc'[r] # "store"
  <2>1. pc'[r] \notin SegmentSteps \ {"key"}
    BY <1>1, <1>11 DEF ApplyTransformer, ExtractDocument, Onward, Go, Raise, TypeOK, SegmentSteps
  <2> QED BY <1>3, <2>1
<1> QED BY <1>3, <1>4, <1>5, <1>6, <1>7, <1>8, <1>9, <1>10, <1>11 DEF Process

\* What a request puts into the cache is what its key's registry makes of its text.
LEMMA RequestTextNamed ==
  ASSUME IInv, InLine, TextNamed, NEW r \in Requests, UpToDate(r),
         Transform(r) \/ Preview(r) \/ StartWorker(r) \/ Process(r)
  PROVE  TextNamed'
<1>1. CASE UNCHANGED cache
  BY <1>1 DEF TextNamed
<1>2. CASE Store(r)
  <2>1. /\ pc[r] = "store" /\ CacheEnabled /\ Progress(r) /\ toggling = "idle"
        /\ key[r] = KeyOf(r) /\ results[r][Len(results[r])] = Rendering(r)
    BY <1>2 DEF Store, IInv, Progress, UpToDate, InLine, Running, Steps, SegmentSteps
  <2>2. \A x \in cache' : x \in cache \/ x = [key |-> KeyOf(r), entry |-> Rendering(r)]
    BY <1>2, <2>1 DEF Store, Put
  <2>3. KeyOf(r).kind = "text" =>
          /\ Segment(r) \notin Documents
          /\ KeyOf(r).content = Segment(r) /\ KeyOf(r).version = registry
          /\ KeyOf(r).encoding = Encoding(r)
    BY DEF KeyOf, TextKey, DocumentKey
  <2>4. KeyOf(r).kind = "text" =>
          Rendering(r) = Measured(Select(KeyOf(r).version, Detect(SniffersFor(KeyOf(r).version), KeyOf(r).content)),
                                  KeyOf(r).content, KeyOf(r).encoding)
    BY <2>1, <2>3, SniffersOfRegistry DEF Rendering
  <2>5. \A x \in cache' : x.key.kind = "text" =>
          x.entry = Measured(Select(x.key.version, Detect(SniffersFor(x.key.version), x.key.content)),
                             x.key.content, x.key.encoding)
    BY <2>2, <2>4 DEF TextNamed
  <2> QED BY <2>5 DEF TextNamed
<1>3. CASE ~Store(r)
  <2>1. UNCHANGED cache
    BY <1>3 DEF Transform, Preview, StartWorker, Process, Parse, SkipSegment, ComputeTextKey,
       ComputeDocumentKey, Hit, Miss, DetectType, PassThrough, ApplyTransformer, ExtractDocument, Finish
  <2> QED BY <1>1, <2>1
<1> QED BY <1>2, <1>3

LEMMA AloneInductive ==
  /\ Init => Alone
  /\ IInv /\ (OnLoop => Alone) /\ [Next]_vars => (OnLoop => Alone)'
<1>1. ASSUME Init PROVE Alone
  <2>1. InLine
    BY <1>1, TransformersAssumption, SniffersAssumption
    DEF Init, InLine, InStep, Running, Steps, Transformers, Sniffers
  <2>2. (\A r \in Requests : UpToDate(r)) /\ TextNamed
    BY <1>1 DEF Init, UpToDate, TextNamed, SegmentSteps
  <2> QED BY <2>1, <2>2 DEF Alone
<1>2. ASSUME IInv, OnLoop => Alone, [Next]_vars, OnLoop' PROVE Alone'
  <2>1. OnLoop /\ Alone /\ UNCHANGED shape /\ TypeOK
    BY <1>2, LoopIsStable DEF IInv
  <2>2. ASSUME NEW r \in Requests, Transform(r) \/ Preview(r) \/ StartWorker(r) \/ Process(r)
        PROVE  Alone'
    <3>1. /\ InLine' /\ UNCHANGED control
          /\ \A q \in Requests \ {r} : ~Running(q)'
      BY <2>1, <2>2, RequestInLine DEF Alone
    <3>2. UpToDate(r)' /\ TextNamed'
      BY <1>2, <2>1, <2>2, <3>1, RequestUpToDate, RequestTextNamed DEF Alone
    <3>3. ASSUME NEW q \in Requests, q # r PROVE UpToDate(q)'
      BY <3>1, <3>3 DEF UpToDate, Running, Steps, SegmentSteps
    <3> QED BY <3>1, <3>2, <3>3 DEF Alone
  <2>3. CASE \/ \E enabled \in BOOLEAN : SetOptimization(enabled) \/ SetPrompt(enabled)
             \/ Toggle
    <3>1. /\ InLine' /\ UNCHANGED cache
          /\ \A q \in Requests : ~Running(q)'
      BY <2>1, <2>3, ToggleInLine DEF Alone
    <3>2. \A q \in Requests : UpToDate(q)'
      BY <3>1 DEF UpToDate, Running, Steps, SegmentSteps
    <3> QED BY <2>1, <3>1, <3>2 DEF Alone, TextNamed
  <2>4. CASE Evict \/ UNCHANGED vars
    <3>1. UNCHANGED <<control, shape, job>> /\ cache' \subseteq cache
      BY <2>4 DEF Evict, vars
    <3>2. InLine'
      BY <2>1, <3>1 DEF Alone, InLine, InStep, control, job, Running, Offloaded
    <3>3. \A q \in Requests : UpToDate(q)'
      BY <2>1, <3>1 DEF Alone, UpToDate, control, job, KeyOf, Rendering, Segment, Encoding
    <3>4. TextNamed'
      BY <2>1, <3>1 DEF Alone, TextNamed
    <3> QED BY <3>2, <3>3, <3>4 DEF Alone
  <2> QED BY <1>2, <2>2, <2>3, <2>4 DEF Next
<1> QED BY <1>1, <1>2

\* On the loop, the two states of prompt optimization never share a cached text: each
\* entry is what the registry named in its key makes of that text.
THEOREM NamespacesAlwaysHold == Spec => []NamespacesHold
<1>1. (OnLoop => Alone) => NamespacesHold
  BY DEF Alone, TextNamed, NamespacesHold
<1> QED BY <1>1, AloneInductive, Inductive, PTL DEF Spec

-----------------------------------------------------------------------------
(* The refinement of Cacheless.                                            *)

On == Prompt \in registry

\* The promise is stated in the pipeline's own terms.
LEMMA IdealTerms ==
  /\ \A among, type : Ideal!Select(among, type) = Select(among, type)
  /\ \A asked, c : Ideal!Detect(asked, c) = Detect(asked, c)
  /\ \A t, c, e : Ideal!Measured(t, c, e) = Measured(t, c, e)
  /\ \A d, e : Ideal!Extracted(d, e) = Extracted(d, e)
  /\ \A s, on : Ideal!Decide(s, on) = Decide(s, on)
  /\ Ideal!Allow = Allow /\ Ideal!Transformers = Transformers /\ Ideal!Sniffers = Sniffers
<1>1. \A among, type : Ideal!Select(among, type) = Select(among, type)
  BY DEF Ideal!Select, Select
<1>2. \A asked, c : Ideal!Detect(asked, c) = Detect(asked, c)
  BY DEF Ideal!Detect, Detect, Ideal!Abstains, Abstains
<1>3. \A t, c, e : Ideal!Measured(t, c, e) = Measured(t, c, e)
  BY DEF Ideal!Measured, Measured, Ideal!Result, Result
<1>4. \A d, e : Ideal!Extracted(d, e) = Extracted(d, e)
  BY DEF Ideal!Extracted, Extracted, Ideal!Result, Result
<1>5. Ideal!Allow = Allow /\ Ideal!Transformers = Transformers /\ Ideal!Sniffers = Sniffers
  BY DEF Ideal!Allow, Allow, Ideal!Transformers, Transformers, Ideal!Sniffers, Sniffers
<1>6. \A s, on : Ideal!Decide(s, on) = Decide(s, on)
  <2>1. \A s, on : Ideal!Objections(s, on) = Objections(s, on)
    BY DEF Ideal!Objections, Objections, Ideal!Permits, Permits
  <2>2. \A S : Ideal!Min(S) = Min(S)
    BY DEF Ideal!Min, Min
  <2> QED BY <1>5, <2>1, <2>2 DEF Ideal!Decide, Decide
<1> QED BY <1>1, <1>2, <1>3, <1>4, <1>5, <1>6

LEMMA TakerNow ==
  ASSUME InLine, toggling = "idle", NEW c
  PROVE  Ideal!Taker(c, On) = Select(registry, Detect(sniffers, c))
BY SniffersOfRegistry, IdealTerms DEF Ideal!Taker, On

\* What the promise writes for segment i, read as o.
Part(s, i, o, on) ==
  IF Ideal!Rewrites(o, s.encoding, on)
  THEN {[at |-> i, by |-> Ideal!Author(o, on), of |-> o]} ELSE {}

\* B is what the promise replaces in the first n segments of a request, each in some spelling
\* of it, and none of them has broken it.
Replacing(B, s, n, on) ==
  /\ \A w \in B : w.at \in 1..n
  /\ \A i \in 1..n : \E o \in Ideal!Spellings(s.segments[i]) :
       {w \in B : w.at = i} = Part(s, i, o, on)
Harmless(c, on) ==
  c \in Unencodable => c \in Short \/ (~CacheEnabled /\ ~Ideal!HasOutput(c, on))
Unbroken(s, n, on) == \A i \in 1..n : Harmless(s.segments[i], on)

LEMMA ReplacingNext ==
  ASSUME NEW s, NEW n \in Nat \ {0}, NEW on, NEW B, Replacing(B, s, n - 1, on),
         NEW o \in Ideal!Spellings(s.segments[n])
  PROVE  Replacing(B \cup Part(s, n, o, on), s, n, on)
<1> DEFINE C == B \cup Part(s, n, o, on)
<1>1. \A w \in Part(s, n, o, on) : w.at = n
  BY DEF Part
<1>2. 1..n = (1..(n - 1)) \cup {n} /\ n \notin 1..(n - 1)
  OBVIOUS
<1>3. \A w \in B : w.at \in 1..(n - 1)
  BY DEF Replacing
<1>4. \A w \in C : w.at \in 1..n
  BY <1>1, <1>2, <1>3
<1>5. ASSUME NEW i \in 1..n
      PROVE  \E x \in Ideal!Spellings(s.segments[i]) : {w \in C : w.at = i} = Part(s, i, x, on)
  <2>1. CASE i = n
    <3>1. {w \in C : w.at = n} = Part(s, n, o, on)
      BY <1>1, <1>2, <1>3
    <3> QED BY <2>1, <3>1
  <2>2. CASE i \in 1..(n - 1)
    <3>1. {w \in C : w.at = i} = {w \in B : w.at = i}
      BY <1>1, <1>2, <2>2
    <3>2. PICK x \in Ideal!Spellings(s.segments[i]) : {w \in B : w.at = i} = Part(s, i, x, on)
      BY <2>2 DEF Replacing
    <3> QED BY <3>1, <3>2
  <2> QED BY <1>2, <2>1, <2>2
<1> QED BY <1>4, <1>5 DEF Replacing

LEMMA UnbrokenNext ==
  ASSUME NEW s, NEW n \in Nat \ {0}, NEW on, Unbroken(s, n - 1, on), Harmless(s.segments[n], on)
  PROVE  Unbroken(s, n, on)
<1>1. 1..n = (1..(n - 1)) \cup {n}
  OBVIOUS
<1> QED BY <1>1 DEF Unbroken

\* A segment is a spelling of itself, and a text of nothing else.
LEMMA SpellsItself ==
  /\ \A c \in Segments : c \in Ideal!Spellings(c)
  /\ \A c : c \notin Documents => Ideal!Spellings(c) = {c}
  /\ \A c, o \in Documents : Data[c] = Data[o] => o \in Ideal!Spellings(c)
BY DEF Ideal!Spellings, Segments

\* The segments as they are spelled are a reading of them.
LEMMA ReadsAsItIs ==
  ASSUME NEW s, s.segments \in Seq(Segments)
  PROVE  s.segments \in Ideal!Readings(s)
<1> DEFINE all == UNION {Ideal!Spellings(s.segments[i]) : i \in DOMAIN s.segments}
<1>1. /\ DOMAIN s.segments = 1..Len(s.segments) /\ Len(s.segments) \in Nat
      /\ \A i \in DOMAIN s.segments : s.segments[i] \in Segments
      /\ s.segments = [i \in DOMAIN s.segments |-> s.segments[i]]
  OBVIOUS
<1>2. \A i \in DOMAIN s.segments : s.segments[i] \in Ideal!Spellings(s.segments[i])
  BY <1>1, SpellsItself
<1>3. \A i \in DOMAIN s.segments : s.segments[i] \in all
  BY <1>2
<1>4. s.segments \in [DOMAIN s.segments -> all]
  BY <1>1, <1>3
<1> QED BY <1>2, <1>4 DEF Ideal!Readings

\* What has been replaced in all segments is what the promise replaces in one reading of them.
LEMMA ReadsAsReplaced ==
  ASSUME NEW s, s.segments \in Seq(Segments), NEW on, NEW B,
         Replacing(B, s, Len(s.segments), on)
  PROVE  \E as \in Ideal!Readings(s) : Ideal!Body(s, on, as) = B
<1> DEFINE all == UNION {Ideal!Spellings(s.segments[i]) : i \in DOMAIN s.segments}
           Fits(i, o) == {w \in B : w.at = i} = Part(s, i, o, on)
           as == [i \in DOMAIN s.segments |-> CHOOSE o \in Ideal!Spellings(s.segments[i]) : Fits(i, o)]
<1>1. DOMAIN s.segments = 1..Len(s.segments)
  OBVIOUS
<1>2. ASSUME NEW i \in DOMAIN s.segments
      PROVE  as[i] \in Ideal!Spellings(s.segments[i]) /\ Fits(i, as[i])
  <2>1. \E o \in Ideal!Spellings(s.segments[i]) : Fits(i, o)
    BY <1>1 DEF Replacing
  <2> HIDE DEF Fits
  <2> QED BY <2>1
<1>3. as \in [DOMAIN s.segments -> all]
  <2>1. \A i \in DOMAIN s.segments : as[i] \in all
    BY <1>2
  <2>2. as = [i \in DOMAIN s.segments |-> as[i]]
    OBVIOUS
  <2> HIDE DEF as, all
  <2> QED BY <2>1, <2>2
<1> HIDE DEF as
<1>4. as \in Ideal!Readings(s)
  BY <1>2, <1>3 DEF Ideal!Readings
<1>5. ASSUME NEW w \in Ideal!Body(s, on, as) PROVE w \in B
  <2>1. PICK i \in DOMAIN s.segments :
          /\ Ideal!Rewrites(as[i], s.encoding, on)
          /\ w = [at |-> i, by |-> Ideal!Author(as[i], on), of |-> as[i]]
    BY DEF Ideal!Body
  <2>2. w \in Part(s, i, as[i], on)
    BY <2>1 DEF Part
  <2>3. Fits(i, as[i])
    BY <1>2
  <2> QED BY <2>2, <2>3
<1>6. ASSUME NEW w \in B PROVE w \in Ideal!Body(s, on, as)
  <2>1. w.at \in DOMAIN s.segments
    BY <1>1 DEF Replacing
  <2>2. w \in Part(s, w.at, as[w.at], on)
    BY <1>2, <2>1
  <2>3. /\ Ideal!Rewrites(as[w.at], s.encoding, on)
        /\ w = [at |-> w.at, by |-> Ideal!Author(as[w.at], on), of |-> as[w.at]]
    BY <2>2 DEF Part
  <2> QED BY <2>1, <2>3 DEF Ideal!Body
<1>7. Ideal!Body(s, on, as) = B
  BY <1>5, <1>6
<1> QED BY <1>4, <1>7

\* How many segments the request under way has done with.
Passed(r) ==
  IF pc[r] = "finish" THEN Len(shape[r].segments)
  ELSE IF pc[r] = "store" THEN at[r] ELSE at[r] - 1

\* The request under way is on the way to its answer in Cacheless.
OnTheWay(r) ==
  /\ ~shape[r].preview => Decide(shape[r], optimizing) = Allow
  /\ ~shape[r].preview /\ pc[r] # "parse" => Rejection(shape[r]) = "none"
  /\ shape[r].preview => pc[r] # "parse"
  /\ pc[r] # "parse" => /\ Replacing(written[r], shape[r], Passed(r), On)
                        /\ Unbroken(shape[r], Passed(r), On)
  /\ shape[r].preview /\ results[r] # <<>> => shape[r].segments[1] \notin Unencodable

Faithful(r) ==
  /\ pc[r] \in {"new", "parse"} => written[r] = {} /\ results[r] = <<>>
  /\ Running(r) => OnTheWay(r)

\* A cached document is the extraction of some spelling of the bytes its key names.
DocumentsNamed ==
  \A x \in cache : x.key.kind = "document" =>
    /\ x.entry.of \in Documents /\ Data[x.entry.of] = x.key.content
    /\ x.entry = Extracted(x.entry.of, x.key.encoding)

OnCourse ==
  /\ \A r \in Requests : Faithful(r)
  /\ DocumentsNamed

-----------------------------------------------------------------------------
\* Going on from a segment that is done with.
LEMMA OnwardOnTheWay ==
  ASSUME IInv, UNCHANGED <<control, shape>>, NEW r \in Requests, Running(r), OnTheWay(r),
         pc[r] \in SegmentSteps,
         \/ Onward(r)
         \/ Go(r, "store") /\ UNCHANGED at,
         Replacing(written'[r], shape[r], at[r], On), Unbroken(shape[r], at[r], On),
         shape[r].preview /\ results'[r] # <<>> => shape[r].segments[1] \notin Unencodable
  PROVE  Faithful(r)'
<1>1. /\ at[r] \in 1..Len(shape[r].segments) /\ Len(shape[r].segments) \in Nat
      /\ TypeOK
  BY ShapeFacts DEF IInv, Progress, TypeOK
<1>2. pc'[r] \in {"key", "finish", "store"} /\ Passed(r)' = at[r]
  <2>1. shape' = shape /\ at[r] \in Nat
    BY <1>1
  <2>2. CASE Onward(r) /\ at[r] < Len(shape[r].segments)
    <3>1. pc'[r] = "key" /\ at'[r] = at[r] + 1
      BY <1>1, <2>2 DEF Onward, Go, TypeOK
    <3> QED BY <2>1, <3>1 DEF Passed
  <2>3. CASE Onward(r) /\ ~(at[r] < Len(shape[r].segments))
    <3>1. pc'[r] = "finish" /\ Len(shape[r].segments) = at[r]
      BY <1>1, <2>3 DEF Onward, Go, TypeOK
    <3> QED BY <2>1, <3>1 DEF Passed
  <2>4. CASE Go(r, "store") /\ UNCHANGED at
    <3>1. pc'[r] = "store" /\ at'[r] = at[r]
      BY <1>1, <2>4 DEF Go, TypeOK
    <3> QED BY <2>1, <3>1 DEF Passed
  <2> QED BY <2>2, <2>3, <2>4
<1>3. On' = On /\ UNCHANGED <<shape, optimizing>>
  BY DEF On, control
<1>4. pc[r] # "parse"
  BY DEF SegmentSteps
<1>5. OnTheWay(r)'
  <2>1. /\ Rejection(shape[r])' = Rejection(shape[r])
        /\ Decide(shape[r], optimizing)' = Decide(shape[r], optimizing)
    BY <1>3
  <2>2. Replacing(written[r], shape[r], Passed(r), On)' /\ Unbroken(shape[r], Passed(r), On)'
    <3>1. /\ Replacing(written[r], shape[r], Passed(r), On)' = Replacing(written'[r], shape[r], at[r], On)
          /\ Unbroken(shape[r], Passed(r), On)' = Unbroken(shape[r], at[r], On)
      BY <1>2, <1>3
    <3> QED BY <3>1
  <2> QED BY <1>2, <1>3, <1>4, <2>1, <2>2 DEF OnTheWay
<1> QED BY <1>2, <1>5 DEF Faithful

\* A result kept for the segment in hand is the one the promise has for it.
LEMMA KeepOnTheWay ==
  ASSUME IInv, UNCHANGED <<control, shape>>, NEW r \in Requests, Running(r), OnTheWay(r),
         pc[r] \in Before \cap SegmentSteps,
         \/ Onward(r)
         \/ Go(r, "store") /\ UNCHANGED at,
         NEW result \in Results, Keep(r, result), Segment(r) \notin Unencodable,
         NEW o \in Ideal!Spellings(Segment(r)),
         result.changed <=> Ideal!Rewrites(o, Encoding(r), On),
         result.changed => result.by = Ideal!Author(o, On) /\ result.of = o
  PROVE  Faithful(r)'
<1>1. /\ at[r] \in 1..Len(shape[r].segments) /\ Len(shape[r].segments) \in Nat
      /\ TypeOK /\ (shape[r].preview => Len(shape[r].segments) = 1)
  BY ShapeFacts DEF IInv, Progress, TypeOK
<1>2. /\ pc[r] \in SegmentSteps /\ Passed(r) = at[r] - 1 /\ pc[r] # "parse" /\ at[r] \in Nat \ {0}
  BY <1>1 DEF Before, SegmentSteps, Passed
<1>3. Replacing(written[r], shape[r], at[r] - 1, On) /\ Unbroken(shape[r], at[r] - 1, On)
  BY <1>2 DEF OnTheWay
<1>4. written'[r] = IF result.changed THEN written[r] \cup {[at |-> at[r], by |-> result.by, of |-> result.of]}
                                      ELSE written[r]
  BY <1>1 DEF Keep, TypeOK
<1>5. /\ Segment(r) = shape[r].segments[at[r]] /\ Encoding(r) = shape[r].encoding
  BY DEF Segment, Encoding
<1>6. Harmless(shape[r].segments[at[r]], On)
  BY <1>5 DEF Harmless
<1>7. Replacing(written'[r], shape[r], at[r], On) /\ Unbroken(shape[r], at[r], On)
  <2>1. written'[r] = written[r] \cup Part(shape[r], at[r], o, On)
    BY <1>4, <1>5 DEF Part
  <2>2. o \in Ideal!Spellings(shape[r].segments[at[r]])
    BY <1>5
  <2> HIDE DEF Part, Replacing
  <2>3. Replacing(written'[r], shape[r], at[r], On)
    BY <1>2, <1>3, <2>1, <2>2, ReplacingNext
  <2> QED BY <1>2, <1>3, <1>6, <2>3, UnbrokenNext
<1>8. shape[r].preview => shape[r].segments[1] \notin Unencodable
  BY <1>1, <1>5
<1> QED BY <1>2, <1>7, <1>8, OnwardOnTheWay

\* What is made of the segment in hand is what the promise has for it.
LEMMA RenderingPromised ==
  ASSUME IInv, Alone, NEW r \in Requests, Running(r), pc[r] \in SegmentSteps \ {"key"},
         Segment(r) \in Text => Ideal!HasOutput(Segment(r), On)
  PROVE  /\ Rendering(r).changed <=> Ideal!Rewrites(Segment(r), Encoding(r), On)
         /\ Rendering(r).by = Ideal!Author(Segment(r), On)
         /\ Rendering(r).of = Segment(r)
<1>1. /\ InLine /\ toggling = "idle" /\ TypeOK /\ Progress(r) /\ UpToDate(r)
  BY DEF Alone, InLine, IInv
<1>2. /\ Segment(r) \in Segments /\ (Segment(r) \in Text <=> Segment(r) \notin Documents)
      /\ Encoding(r) \in Encodings
  BY <1>1, ShapeFacts, SegmentFacts DEF TypeOK, Progress
<1>3. /\ Segment(r) \notin Short /\ (Segment(r) \in Documents => DocumentsEnabled)
  BY <1>1 DEF UpToDate
<1>4. CASE Segment(r) \in Documents
  <2>1. Rendering(r) = Extracted(Segment(r), Encoding(r))
    BY <1>4 DEF Rendering
  <2>2. Rendering(r).by = Extractor /\ Rendering(r).of = Segment(r)
    BY <1>2, <1>4, <2>1, ExtractedReturns
  <2>3. Ideal!Author(Segment(r), On) = Extractor
    BY <1>4 DEF Ideal!Author
  <2>4. Ideal!Rewrites(Segment(r), Encoding(r), On) <=> Extracted(Segment(r), Encoding(r)).changed
    BY <1>3, <1>4, IdealTerms DEF Ideal!Rewrites
  <2> QED BY <2>1, <2>2, <2>3, <2>4
<1>5. CASE Segment(r) \in Text
  <2> DEFINE taker == Select(registry, Detect(sniffers, Segment(r)))
  <2>1. Ideal!Taker(Segment(r), On) = taker
    BY <1>1, TakerNow
  <2>2. Rendering(r) = Measured(taker, Segment(r), Encoding(r))
    BY <1>2, <1>5 DEF Rendering
  <2> HIDE DEF taker
  <2>3. Rendering(r).by = taker /\ Rendering(r).of = Segment(r)
    BY <2>2 DEF Measured, Result
  <2>4. Ideal!Author(Segment(r), On) = taker
    BY <1>2, <1>5, <2>1 DEF Ideal!Author
  <2>5. Ideal!Rewrites(Segment(r), Encoding(r), On) <=> Measured(taker, Segment(r), Encoding(r)).changed
    BY <1>2, <1>3, <1>5, <2>1, IdealTerms DEF Ideal!Rewrites
  <2> QED BY <2>2, <2>3, <2>4, <2>5
<1> QED BY <1>2, <1>4, <1>5

\* What the cache has under the key in hand is what would be computed for it.
LEMMA CachedRendering ==
  ASSUME IInv, Alone, DocumentsNamed, NEW r \in Requests, pc[r] = "lookup", NEW x \in Cached(key[r])
  PROVE  /\ Segment(r) \in Text => x.entry = Rendering(r) /\ Ideal!HasOutput(Segment(r), On)
         /\ \E o \in Ideal!Spellings(Segment(r)) :
              /\ x.entry.changed <=> Ideal!Rewrites(o, Encoding(r), On)
              /\ x.entry.by = Ideal!Author(o, On) /\ x.entry.of = o
<1>1. /\ Running(r) /\ InLine /\ toggling = "idle" /\ TypeOK /\ Progress(r) /\ UpToDate(r)
      /\ CacheEnabled
  BY DEF Alone, InLine, IInv, Running, Steps, Progress
<1>2. /\ Segment(r) \in Segments /\ (Segment(r) \in Text <=> Segment(r) \notin Documents)
      /\ at[r] \in 1..Len(shape[r].segments) /\ shape[r].segments \in Seq(Segments)
      /\ shape[r] \in Shapes
  BY <1>1, ShapeFacts, SegmentFacts DEF TypeOK, Progress, SegmentSteps
<1>3. x \in cache /\ x.key = KeyOf(r) /\ Sound(x.key, x.entry)
  BY <1>1 DEF Cached, UpToDate, SegmentSteps, IInv, CacheSound
<1>4. CASE Segment(r) \in Documents
  <2>1. KeyOf(r).kind = "document" /\ KeyOf(r).content = Data[Segment(r)] /\ KeyOf(r).encoding = Encoding(r)
    BY <1>4 DEF KeyOf, DocumentKey
  <2> DEFINE o == x.entry.of
  <2>2. /\ o \in Documents /\ Data[o] = Data[Segment(r)] /\ x.entry = Extracted(o, Encoding(r))
    BY <1>3, <2>1 DEF DocumentsNamed
  <2> HIDE DEF o
  <2>3. o \in Ideal!Spellings(Segment(r))
    BY <1>4, <2>2, SpellsItself
  <2>4. x.entry.by = Extractor /\ x.entry.of = o
    BY <1>1, <2>2, ShapeFacts, ExtractedReturns DEF TypeOK
  <2>5. Ideal!Author(o, On) = Extractor
    BY <2>2 DEF Ideal!Author
  <2>6. Ideal!Rewrites(o, Encoding(r), On) <=> x.entry.changed
    BY <1>1, <1>4, <2>2, IdealTerms DEF Ideal!Rewrites, UpToDate, SegmentSteps
  <2> QED BY <1>2, <1>4, <2>3, <2>4, <2>5, <2>6
<1>5. CASE Segment(r) \in Text
  <2> DEFINE taker == Select(registry, Detect(sniffers, Segment(r)))
  <2>1. /\ KeyOf(r).kind = "text" /\ KeyOf(r).content = Segment(r) /\ KeyOf(r).encoding = Encoding(r)
        /\ KeyOf(r).version = registry
    BY <1>2, <1>5 DEF KeyOf, TextKey
  <2>2. x.entry = Measured(Select(x.key.version, Detect(SniffersFor(x.key.version), x.key.content)),
                           x.key.content, x.key.encoding)
    BY <1>3, <2>1 DEF Alone, TextNamed
  <2>3. x.entry = Measured(taker, Segment(r), Encoding(r))
    BY <1>1, <1>3, <2>1, <2>2, SniffersOfRegistry
  <2> HIDE DEF taker
  <2>4. x.entry.by = taker /\ x.entry.of = Segment(r)
    BY <2>3 DEF Measured, Result
  <2>5. taker \in Transformers /\ Effect[taker][Segment(r)] # "raise"
    BY <1>3, <2>1, <2>4 DEF Sound
  <2>6. taker # NoTransformer
    BY <2>5, TransformersAssumption DEF Authors
  <2>7. Ideal!Taker(Segment(r), On) = taker
    BY <1>1, TakerNow DEF taker
  <2>8. Ideal!HasOutput(Segment(r), On)
    BY <2>5, <2>6, <2>7 DEF Ideal!HasOutput
  <2>9. Rendering(r) = Measured(taker, Segment(r), Encoding(r))
    BY <1>2, <1>5 DEF Rendering, taker
  <2>10. /\ Rendering(r).changed <=> Ideal!Rewrites(Segment(r), Encoding(r), On)
         /\ Rendering(r).by = Ideal!Author(Segment(r), On) /\ Rendering(r).of = Segment(r)
    BY <1>1, <2>8, RenderingPromised DEF SegmentSteps
  <2>11. Segment(r) \in Ideal!Spellings(Segment(r)) /\ x.entry = Rendering(r)
    BY <1>2, <2>3, <2>9, SpellsItself
  <2> HIDE DEF Rendering
  <2> QED BY <2>8, <2>10, <2>11
<1> QED BY <1>2, <1>4, <1>5

\* Before it has done with its first segment a request has replaced nothing.
LEMMA NothingPassed ==
  ASSUME NEW s, NEW on
  PROVE  Replacing({}, s, 0, on) /\ Unbroken(s, 0, on)
BY DEF Replacing, Unbroken

\* A step that neither replaces anything nor ends a segment.
LEMMA QuietOnTheWay ==
  ASSUME TypeOK, UNCHANGED <<control, shape>>, NEW r \in Requests, OnTheWay(r),
         pc[r] \in Before \cap SegmentSteps, pc'[r] \in Before \cap SegmentSteps,
         UNCHANGED <<at, results, written>>
  PROVE  Faithful(r)'
<1>1. UNCHANGED <<optimizing, registry>> /\ shape' = shape
  BY DEF control
<1>2. On' = On /\ Passed(r) = at[r] - 1 /\ Passed(r)' = at[r] - 1
  BY <1>1 DEF On, Passed, Before, SegmentSteps
<1>3. /\ Replacing(written[r], shape[r], Passed(r), On)' = Replacing(written[r], shape[r], Passed(r), On)
      /\ Unbroken(shape[r], Passed(r), On)' = Unbroken(shape[r], Passed(r), On)
      /\ Decide(shape[r], optimizing)' = Decide(shape[r], optimizing)
      /\ Rejection(shape[r])' = Rejection(shape[r])
  BY <1>1, <1>2
<1>4. pc[r] # "parse" /\ pc'[r] \notin {"new", "parse"}
  BY DEF Before, SegmentSteps
<1>5. OnTheWay(r)'
  BY <1>1, <1>3, <1>4 DEF OnTheWay
<1> QED BY <1>4, <1>5 DEF Faithful

\* The first step of a request to its first segment.
LEMMA FirstOnTheWay ==
  ASSUME TypeOK, UNCHANGED <<control, shape>>, NEW r \in Requests,
         at[r] = 1, written[r] = {}, results[r] = <<>>, UNCHANGED <<at, results, written>>,
         pc'[r] = "key",
         ~shape[r].preview => Decide(shape[r], optimizing) = Allow /\ Rejection(shape[r]) = "none"
  PROVE  Faithful(r)'
<1>1. UNCHANGED <<optimizing, registry>> /\ shape' = shape
  BY DEF control
<1>2. Passed(r)' = 0
  BY <1>1 DEF Passed
<1>3. /\ Replacing(written[r], shape[r], Passed(r), On)' /\ Unbroken(shape[r], Passed(r), On)'
      /\ Decide(shape[r], optimizing)' = Decide(shape[r], optimizing)
      /\ Rejection(shape[r])' = Rejection(shape[r])
  BY <1>1, <1>2, NothingPassed
<1>4. OnTheWay(r)'
  BY <1>1, <1>3 DEF OnTheWay
<1> QED BY <1>4 DEF Faithful

\* A segment passed over is one the promise leaves alone.
LEMMA OverOnTheWay ==
  ASSUME IInv, UNCHANGED <<control, shape>>, NEW r \in Requests, Running(r), OnTheWay(r),
         pc[r] \in Before \cap SegmentSteps, Onward(r), UNCHANGED <<results, written>>,
         ~Ideal!Rewrites(Segment(r), Encoding(r), On), Harmless(Segment(r), On)
  PROVE  Faithful(r)'
<1>1. TypeOK /\ at[r] \in Nat \ {0}
  BY DEF IInv, TypeOK
<1>2. /\ pc[r] \in SegmentSteps /\ Passed(r) = at[r] - 1 /\ pc[r] # "parse"
  BY DEF Before, SegmentSteps, Passed
<1>3. /\ Replacing(written[r], shape[r], at[r] - 1, On) /\ Unbroken(shape[r], at[r] - 1, On)
      /\ shape[r].preview /\ results'[r] # <<>> => shape[r].segments[1] \notin Unencodable
  BY <1>2 DEF OnTheWay
<1>4. Segment(r) = shape[r].segments[at[r]] /\ Encoding(r) = shape[r].encoding
  BY DEF Segment, Encoding
<1>5. Replacing(written'[r], shape[r], at[r], On) /\ Unbroken(shape[r], at[r], On)
  <2>1. Segment(r) \in Segments
    BY <1>2, SegmentFacts DEF IInv, TypeOK, Progress
  <2>2. shape[r].segments[at[r]] \in Ideal!Spellings(shape[r].segments[at[r]])
    BY <1>4, <2>1, SpellsItself
  <2>3. written'[r] = written[r] \cup Part(shape[r], at[r], shape[r].segments[at[r]], On)
    BY <1>4 DEF Part
  <2> HIDE DEF Part, Replacing
  <2>4. Replacing(written[r], shape[r], at[r] - 1, On) /\ at[r] \in Nat \ {0}
    BY <1>1, <1>3
  <2>5. Replacing(written'[r], shape[r], at[r], On)
    BY ONLY <2>2, <2>3, <2>4, ReplacingNext
  <2> QED BY <1>1, <1>3, <1>4, <2>5, UnbrokenNext
<1> QED BY <1>2, <1>3, <1>5, OnwardOnTheWay

LEMMA RequestFaithful ==
  ASSUME IInv, Alone, OnCourse, UNCHANGED control, NEW r \in Requests,
         Transform(r) \/ Preview(r) \/ StartWorker(r) \/ Process(r)
  PROVE  Faithful(r)'
<1>1. /\ TypeOK /\ Progress(r) /\ UpToDate(r) /\ Faithful(r) /\ InLine /\ DocumentsNamed
      /\ UNCHANGED shape
  BY OthersUntouched DEF IInv, Alone, OnCourse
<1>2. pc[r] \in SegmentSteps =>
        /\ Segment(r) \in Segments /\ (Segment(r) \in Text <=> Segment(r) \notin Documents)
        /\ Segment(r) \in Documents => Segment(r) \notin Short /\ Segment(r) \notin Unencodable
        /\ at[r] \in 1..Len(shape[r].segments)
  BY <1>1, SegmentFacts, ContentsAssumption DEF TypeOK, Progress
<1>3. CASE pc'[r] \notin Steps \cup {"new"}
  BY <1>3 DEF Faithful, Running, Steps
<1>4. CASE Transform(r) /\ pc'[r] = "parse"
  <2>1. /\ pc[r] = "new" /\ ~shape[r].preview /\ UNCHANGED <<results, written>>
        /\ Decide(shape[r], optimizing) = Allow
    BY <1>1, <1>4 DEF Transform, Answer, Go, TypeOK
  <2>2. written'[r] = {} /\ results'[r] = <<>>
    BY <1>1, <2>1 DEF Faithful
  <2>3. Decide(shape[r], optimizing)' = Allow /\ ~shape'[r].preview
    BY <1>1, <2>1 DEF control
  <2>4. OnTheWay(r)'
    BY <1>4, <2>3 DEF OnTheWay
  <2> QED BY <2>2, <2>4 DEF Faithful
<1>5. CASE Preview(r)
  <2>1. /\ pc[r] = "new" /\ shape[r].preview /\ UNCHANGED <<at, results, written>>
        /\ pc'[r] = "key" /\ at[r] = 1
    BY <1>1, <1>5 DEF Preview, Go, TypeOK, Progress
  <2>2. written[r] = {} /\ results[r] = <<>>
    BY <1>1, <2>1 DEF Faithful
  <2> QED BY <1>1, <2>1, <2>2, FirstOnTheWay
<1>6. CASE StartWorker(r)
  BY <1>1, <1>6 DEF StartWorker, InLine
<1>7. CASE Parse(r) /\ pc'[r] = "key"
  <2>1. /\ pc[r] = "parse" /\ UNCHANGED <<at, results, written>>
        /\ at[r] = 1 /\ Rejection(shape[r]) = "none"
    BY <1>1, <1>7 DEF Parse, Answer, Go, TypeOK, Progress
  <2>2. written[r] = {} /\ results[r] = <<>> /\ OnTheWay(r)
    BY <1>1, <2>1 DEF Faithful, Running, Steps
  <2>3. ~shape[r].preview => Decide(shape[r], optimizing) = Allow
    BY <2>2 DEF OnTheWay
  <2> QED BY <1>1, <1>7, <2>1, <2>2, <2>3, FirstOnTheWay
<1>8. CASE SkipSegment(r)
  <2>1. /\ pc[r] = "key" /\ Onward(r) /\ UNCHANGED <<results, written>>
        /\ Segment(r) \in Short \/ (Segment(r) \in Documents /\ ~DocumentsEnabled)
    BY <1>8 DEF SkipSegment
  <2>2. Running(r) /\ OnTheWay(r) /\ pc[r] \in Before \cap SegmentSteps
    BY <1>1, <2>1 DEF Faithful, Running, Steps, Before, SegmentSteps
  <2>3. ~Ideal!Rewrites(Segment(r), Encoding(r), On) /\ Harmless(Segment(r), On)
    BY <1>2, <2>1, <2>2 DEF Ideal!Rewrites, Harmless
  <2> QED BY <1>1, <2>1, <2>2, <2>3, OverOnTheWay
<1>9. CASE /\ ComputeTextKey(r) \/ ComputeDocumentKey(r) \/ Miss(r) \/ DetectType(r)
           /\ pc'[r] # "raised"
  <2>1. /\ pc[r] \in Before \cap SegmentSteps /\ pc'[r] \in Before \cap SegmentSteps
        /\ UNCHANGED <<at, results, written>>
    BY <1>1, <1>9 DEF ComputeTextKey, ComputeDocumentKey, Miss, DetectType, Go, Raise, TypeOK,
       Before, SegmentSteps
  <2>2. OnTheWay(r)
    BY <1>1, <2>1 DEF Faithful, Running, Steps, SegmentSteps
  <2> QED BY <1>1, <2>1, <2>2, QuietOnTheWay
<1>10. CASE Hit(r)
  <2>1. PICK x \in Cached(key[r]) : Keep(r, [x.entry EXCEPT !.hit = TRUE])
    BY <1>10 DEF Hit
  <2> DEFINE result == [x.entry EXCEPT !.hit = TRUE]
  <2>2. /\ pc[r] = "lookup" /\ Onward(r) /\ x.entry \in Results /\ CacheEnabled
    BY <1>1, <1>10 DEF Hit, Cached, TypeOK, Progress
  <2>3. /\ result \in Results /\ result.by = x.entry.by /\ result.of = x.entry.of
        /\ result.changed = x.entry.changed
    BY <2>2 DEF Results
  <2>4. /\ Running(r) /\ OnTheWay(r) /\ pc[r] \in Before \cap SegmentSteps
        /\ pc[r] \in SegmentSteps \ {"key"}
    BY <1>1, <2>2 DEF Faithful, Running, Steps, Before, SegmentSteps
  <2>5. PICK o \in Ideal!Spellings(Segment(r)) :
          /\ x.entry.changed <=> Ideal!Rewrites(o, Encoding(r), On)
          /\ x.entry.by = Ideal!Author(o, On) /\ x.entry.of = o
    BY <1>1, <2>2, CachedRendering
  <2>6. Segment(r) \notin Unencodable
    BY <1>1, <2>2, <2>4 DEF UpToDate
  <2>7. Keep(r, result)
    BY <2>1
  <2> HIDE DEF result
  <2>8. /\ result.changed <=> Ideal!Rewrites(o, Encoding(r), On)
        /\ result.changed => result.by = Ideal!Author(o, On) /\ result.of = o
    BY <2>3, <2>5
  <2> QED BY <1>1, <2>2, <2>3, <2>4, <2>6, <2>7, <2>8, KeepOnTheWay
<1>11. CASE PassThrough(r)
  <2>1. /\ pc[r] = "apply" /\ Onward(r) /\ UNCHANGED <<results, written>> /\ NoOutput(r)
        /\ Segment(r) \in Text
    BY <1>1, <1>11 DEF PassThrough, Progress
  <2>2. /\ Running(r) /\ OnTheWay(r) /\ pc[r] \in Before \cap SegmentSteps
        /\ pc[r] \in SegmentSteps \ {"key"} /\ toggling = "idle"
    BY <1>1, <2>1 DEF Faithful, Running, Steps, Before, SegmentSteps, InLine
  <2>3. Ideal!Taker(Segment(r), On) = Chosen(r)
    BY <1>1, <2>1, <2>2, TakerNow DEF UpToDate, Chosen
  <2>4. ~Ideal!HasOutput(Segment(r), On)
    BY <2>1, <2>3 DEF Ideal!HasOutput, NoOutput
  <2>5. ~Ideal!Rewrites(Segment(r), Encoding(r), On) /\ Harmless(Segment(r), On)
    BY <1>1, <1>2, <2>1, <2>2, <2>4 DEF Ideal!Rewrites, Harmless, UpToDate
  <2> QED BY <1>1, <2>1, <2>2, <2>5, OverOnTheWay
<1>12. CASE ApplyTransformer(r) /\ pc'[r] # "raised"
  <2>1. /\ pc[r] = "apply" /\ ~NoOutput(r) /\ Segment(r) \in Text /\ Segment(r) \notin Unencodable
        /\ Keep(r, Measured(Chosen(r), Segment(r), Encoding(r)))
        /\ Onward(r) \/ (Go(r, "store") /\ UNCHANGED at)
    BY <1>1, <1>12 DEF ApplyTransformer, Raise, Go, TypeOK, Progress
  <2>2. /\ Running(r) /\ OnTheWay(r) /\ pc[r] \in Before \cap SegmentSteps
        /\ pc[r] \in SegmentSteps \ {"key"} /\ toggling = "idle"
    BY <1>1, <2>1 DEF Faithful, Running, Steps, Before, SegmentSteps, InLine
  <2>3. Ideal!Taker(Segment(r), On) = Chosen(r)
    BY <1>1, <2>1, <2>2, TakerNow DEF UpToDate, Chosen
  <2>4. Ideal!HasOutput(Segment(r), On)
    BY <2>1, <2>3 DEF Ideal!HasOutput, NoOutput
  <2>5. Measured(Chosen(r), Segment(r), Encoding(r)) = Rendering(r)
    BY <1>1, <1>2, <2>1, <2>2 DEF UpToDate, Rendering, Chosen
  <2>6. /\ Rendering(r).changed <=> Ideal!Rewrites(Segment(r), Encoding(r), On)
        /\ Rendering(r).by = Ideal!Author(Segment(r), On)
        /\ Rendering(r).of = Segment(r)
    BY <2>2, <2>4, RenderingPromised
  <2>7. Rendering(r) \in Results
    <3>1. Chosen(r) \in Transformers /\ Encoding(r) \in Encodings
      BY <1>1, <2>1, SelectReturns, ShapeFacts DEF TypeOK, NoOutput, Chosen
    <3> QED BY <2>1, <2>5, <3>1, MeasuredReturns
  <2> HIDE DEF Rendering
  <2>8. Keep(r, Rendering(r)) /\ Segment(r) \in Ideal!Spellings(Segment(r))
    BY <1>2, <2>1, <2>2, <2>5, SpellsItself
  <2> QED BY <1>1, <2>1, <2>2, <2>6, <2>7, <2>8, KeepOnTheWay
<1>13. CASE ExtractDocument(r)
  <2>1. /\ pc[r] = "extract" /\ Segment(r) \in Documents
        /\ Keep(r, Extracted(Segment(r), Encoding(r)))
        /\ Onward(r) \/ (Go(r, "store") /\ UNCHANGED at)
    BY <1>1, <1>13 DEF ExtractDocument, Progress
  <2>2. /\ Running(r) /\ OnTheWay(r) /\ pc[r] \in Before \cap SegmentSteps
        /\ pc[r] \in SegmentSteps \ {"key"} /\ pc[r] \in SegmentSteps
    BY <1>1, <2>1 DEF Faithful, Running, Steps, Before, SegmentSteps
  <2>3. Extracted(Segment(r), Encoding(r)) = Rendering(r)
    BY <2>1 DEF Rendering
  <2>4. Segment(r) \notin Text /\ Segment(r) \notin Unencodable
    BY <1>2, <2>1, <2>2
  <2>5. /\ Rendering(r).changed <=> Ideal!Rewrites(Segment(r), Encoding(r), On)
        /\ Rendering(r).by = Ideal!Author(Segment(r), On)
        /\ Rendering(r).of = Segment(r)
    BY <2>2, <2>4, RenderingPromised
  <2>6. Rendering(r) \in Results
    BY <1>1, <2>1, <2>3, ExtractedReturns, ShapeFacts DEF TypeOK
  <2>7. Keep(r, Rendering(r)) /\ Segment(r) \in Ideal!Spellings(Segment(r))
    BY <1>2, <2>1, <2>2, <2>3, SpellsItself
  <2> HIDE DEF Rendering
  <2> QED BY <1>1, <2>1, <2>2, <2>4, <2>5, <2>6, <2>7, KeepOnTheWay
<1>14. CASE Store(r)
  <2>1. /\ pc[r] = "store" /\ Onward(r) /\ UNCHANGED <<results, written>>
        /\ pc[r] \in SegmentSteps
    BY <1>14 DEF Store, SegmentSteps
  <2>2. Running(r) /\ OnTheWay(r) /\ Passed(r) = at[r]
    BY <1>1, <2>1 DEF Faithful, Running, Steps, Passed
  <2>3. /\ Replacing(written'[r], shape[r], at[r], On) /\ Unbroken(shape[r], at[r], On)
        /\ shape[r].preview /\ results'[r] # <<>> => shape[r].segments[1] \notin Unencodable
    BY <2>1, <2>2 DEF OnTheWay
  <2> QED BY <1>1, <2>1, <2>2, <2>3, OnwardOnTheWay
<1>15. CASE Transform(r) /\ pc'[r] # "parse"
  <2>1. pc'[r] \in {"done", "queued"}
    BY <1>1, <1>15 DEF Transform, Answer, Go, TypeOK
  <2> QED BY <1>3, <2>1 DEF Steps
<1>16. CASE Parse(r) /\ pc'[r] # "key"
  <2>1. pc'[r] = "done"
    BY <1>1, <1>16 DEF Parse, Answer, Go, TypeOK
  <2> QED BY <1>3, <2>1 DEF Steps
<1>17. CASE Finish(r)
  <2>1. pc'[r] \in {"done", "raised"}
    BY <1>1, <1>17 DEF Finish, Raise, Answer, Go, TypeOK
  <2> QED BY <1>3, <2>1 DEF Steps
<1>18. CASE pc'[r] = "raised"
  BY <1>3, <1>18 DEF Steps
<1> QED BY <1>4, <1>5, <1>6, <1>7, <1>8, <1>9, <1>10, <1>11, <1>12, <1>13, <1>14, <1>15, <1>16,
           <1>17, <1>18 DEF Process

LEMMA RequestDocumentsNamed ==
  ASSUME IInv, Alone, DocumentsNamed, NEW r \in Requests,
         Transform(r) \/ Preview(r) \/ StartWorker(r) \/ Process(r)
  PROVE  DocumentsNamed'
<1>1. CASE Store(r)
  <2>1. /\ pc[r] = "store" /\ CacheEnabled /\ TypeOK
        /\ key[r] = KeyOf(r) /\ results[r][Len(results[r])] = Rendering(r)
    BY <1>1 DEF Store, IInv, Progress, Alone, UpToDate, SegmentSteps
  <2>2. \A x \in cache' : x \in cache \/ x = [key |-> KeyOf(r), entry |-> Rendering(r)]
    BY <1>1, <2>1 DEF Store, Put
  <2>3. ASSUME KeyOf(r).kind = "document"
        PROVE  /\ Rendering(r).of \in Documents /\ Data[Rendering(r).of] = KeyOf(r).content
               /\ Rendering(r) = Extracted(Rendering(r).of, KeyOf(r).encoding)
    <3>1. /\ Segment(r) \in Documents /\ KeyOf(r).content = Data[Segment(r)]
          /\ KeyOf(r).encoding = Encoding(r)
      BY <2>3 DEF KeyOf, TextKey, DocumentKey
    <3>2. Rendering(r) = Extracted(Segment(r), Encoding(r))
      BY <3>1 DEF Rendering
    <3>3. Rendering(r).of = Segment(r)
      BY <2>1, <3>1, <3>2, ShapeFacts, ExtractedReturns DEF TypeOK
    <3> QED BY <3>1, <3>2, <3>3
  <2>4. ASSUME NEW x \in cache', x.key.kind = "document"
        PROVE  /\ x.entry.of \in Documents /\ Data[x.entry.of] = x.key.content
               /\ x.entry = Extracted(x.entry.of, x.key.encoding)
    <3>1. CASE x \in cache
      BY <2>4, <3>1 DEF DocumentsNamed
    <3>2. CASE x = [key |-> KeyOf(r), entry |-> Rendering(r)]
      <4>1. x.key = KeyOf(r) /\ x.entry = Rendering(r)
        BY <3>2
      <4> QED BY <2>3, <2>4, <4>1
    <3> QED BY <2>2, <3>1, <3>2
  <2> QED BY <2>4 DEF DocumentsNamed
<1>2. CASE ~Store(r)
  <2>1. UNCHANGED cache
    BY <1>2 DEF Transform, Preview, StartWorker, Process, Parse, SkipSegment, ComputeTextKey,
       ComputeDocumentKey, Hit, Miss, DetectType, PassThrough, ApplyTransformer, ExtractDocument, Finish
  <2> QED BY <2>1 DEF DocumentsNamed
<1> QED BY <1>1, <1>2

LEMMA OnCourseInductive ==
  /\ Init => OnCourse
  /\ IInv /\ (OnLoop => Alone) /\ (OnLoop => OnCourse) /\ [Next]_vars => (OnLoop => OnCourse)'
<1>1. ASSUME Init PROVE OnCourse
  BY <1>1 DEF Init, OnCourse, Faithful, DocumentsNamed, Running, Steps
<1>2. ASSUME IInv, OnLoop => Alone, OnLoop => OnCourse, [Next]_vars, OnLoop' PROVE OnCourse'
  <2>1. OnLoop /\ Alone /\ OnCourse /\ UNCHANGED shape /\ TypeOK /\ InLine
    BY <1>2, LoopIsStable DEF IInv, Alone
  <2>2. ASSUME NEW r \in Requests, Transform(r) \/ Preview(r) \/ StartWorker(r) \/ Process(r)
        PROVE  OnCourse'
    <3>1. /\ UNCHANGED control /\ \A q \in Requests \ {r} : ~Running(q)'
      BY <2>1, <2>2, RequestInLine
    <3>2. Faithful(r)' /\ DocumentsNamed'
      BY <1>2, <2>1, <2>2, <3>1, RequestFaithful, RequestDocumentsNamed DEF OnCourse
    <3>3. ASSUME NEW q \in Requests, q # r PROVE Faithful(q)'
      <4>1. pc'[q] = pc[q] /\ written'[q] = written[q] /\ results'[q] = results[q] /\ ~Running(q)'
        BY <2>1, <2>2, <3>1, <3>3, OthersUntouched
      <4> QED BY <2>1, <4>1 DEF OnCourse, Faithful
    <3> QED BY <3>2, <3>3 DEF OnCourse
  <2>3. CASE \/ \E enabled \in BOOLEAN : SetOptimization(enabled) \/ SetPrompt(enabled)
             \/ Toggle
    <3>1. /\ UNCHANGED <<cache, shape, pc, written, results>>
          /\ \A q \in Requests : ~Running(q)'
      BY <2>1, <2>3, ToggleInLine DEF job
    <3>2. \A q \in Requests : Faithful(q)'
      BY <2>1, <3>1 DEF OnCourse, Faithful
    <3> QED BY <2>1, <3>1, <3>2 DEF OnCourse, DocumentsNamed
  <2>4. CASE Evict \/ UNCHANGED vars
    <3>1. UNCHANGED <<optimizing, registry, shape, pc, at, written, results>> /\ cache' \subseteq cache
      BY <2>4 DEF Evict, vars, control, job
    <3>2. ASSUME NEW q \in Requests PROVE Faithful(q)'
      <4>1. Faithful(q)
        BY <2>1 DEF OnCourse
      <4>2. On' = On /\ Passed(q)' = Passed(q)
        BY <3>1 DEF On, Passed
      <4>3. /\ Replacing(written[q], shape[q], Passed(q), On)' = Replacing(written[q], shape[q], Passed(q), On)
            /\ Unbroken(shape[q], Passed(q), On)' = Unbroken(shape[q], Passed(q), On)
            /\ Decide(shape[q], optimizing)' = Decide(shape[q], optimizing)
            /\ Rejection(shape[q])' = Rejection(shape[q])
        BY <3>1, <4>2
      <4> QED BY <3>1, <4>1, <4>3 DEF Faithful, OnTheWay, Running
    <3>3. DocumentsNamed'
      BY <2>1, <3>1 DEF OnCourse, DocumentsNamed
    <3> QED BY <3>2, <3>3 DEF OnCourse
  <2> QED BY <1>2, <2>2, <2>3, <2>4 DEF Next
<1> QED BY <1>1, <1>2

-----------------------------------------------------------------------------
\* What an answered request is told is what Cacheless tells it, in some reading.
Promised(r, as) == Ideal!Answered(shape[r], optimizing, On, as)

\* When a request comes to its end, the promise replaces what it has replaced, and
\* breaks exactly if its body cannot be serialized.
LEMMA FinishPromised ==
  ASSUME IInv, Alone, OnCourse, AllTraced, NEW r \in Requests, Finish(r)
  PROVE  \E as \in Ideal!Readings(shape[r]) : AnswerOf(r)' = Promised(r, as)
<1>1. /\ TypeOK /\ pc[r] = "finish" /\ Running(r) /\ OnTheWay(r) /\ Traced(r)
      /\ UNCHANGED <<shape, written>>
  BY DEF Finish, Raise, IInv, OnCourse, Faithful, Running, Steps, AllTraced
<1>2. /\ Len(shape[r].segments) \in Nat /\ DOMAIN shape[r].segments = 1..Len(shape[r].segments)
      /\ shape[r].segments \in Seq(Segments)
      /\ shape[r].preview => Len(shape[r].segments) = 1
  BY <1>1, ShapeFacts DEF TypeOK
<1>0. /\ Replacing(written[r], shape[r], Len(shape[r].segments), On)
      /\ Unbroken(shape[r], Len(shape[r].segments), On)
  BY <1>1 DEF OnTheWay, Passed
<1>3. PICK as \in Ideal!Readings(shape[r]) : Ideal!Body(shape[r], On, as) = written[r]
  <2> DEFINE s == shape[r]
             on == On
             B  == written[r]
  <2>1. s.segments \in Seq(Segments) /\ Replacing(B, s, Len(s.segments), on)
    BY <1>0, <1>2
  <2> HIDE DEF s, on, B
  <2>2. \E as \in Ideal!Readings(s) : Ideal!Body(s, on, as) = B
    BY <2>1, ReadsAsReplaced
  <2> QED BY <2>2 DEF s, on, B
<1>4. Ideal!Refusal(shape[r], optimizing) = "none"
  BY <1>1, IdealTerms DEF OnTheWay, Ideal!Refusal, Rejection
<1>5. Changed(r) <=> written[r] # {}
  <2>1. Changed(r) <=> Claimed(results[r]) # {}
    BY DEF Changed, Claimed
  <2> QED BY <1>1, <2>1, FS_EmptySet DEF Traced
<1>6. ASSUME NEW i \in DOMAIN shape[r].segments, shape[r].segments[i] \in Unencodable
      PROVE  i \in Untouched(r)
  <2>1. shape[r].segments[i] \in Text /\ shape[r].segments[i] \notin Documents
    BY <1>6, ContentsAssumption
  <2>2. ~Ideal!Rewrites(shape[r].segments[i], shape[r].encoding, On)
    BY <1>0, <1>2, <1>6, <2>1 DEF Unbroken, Harmless, Ideal!Rewrites
  <2>3. ASSUME NEW w \in written[r], w.at = i PROVE FALSE
    <3>1. PICK o \in Ideal!Spellings(shape[r].segments[i]) :
            {v \in written[r] : v.at = i} = Part(shape[r], i, o, On)
      BY <1>0, <1>2, <1>6 DEF Replacing
    <3>2. o = shape[r].segments[i]
      BY <2>1, SpellsItself
    <3>3. Part(shape[r], i, o, On) = {}
      BY <2>2, <3>2 DEF Part
    <3> QED BY <2>3, <3>1, <3>3
  <2> QED BY <2>3 DEF Untouched
<1>7. Unserializable(r) <=> Ideal!Breaks(shape[r], On, as)
  <2>1. ASSUME Unserializable(r) PROVE Ideal!Breaks(shape[r], On, as)
    <3>1. PICK i \in Untouched(r) : shape[r].segments[i] \in Unencodable
      BY <2>1 DEF Unserializable
    <3>2. i \in DOMAIN shape[r].segments /\ (written[r] # {} \/ shape[r].preview)
      BY <1>5, <2>1, <3>1 DEF Unserializable, Untouched
    <3> QED BY <1>3, <3>1, <3>2 DEF Ideal!Breaks
  <2>2. ASSUME Ideal!Breaks(shape[r], On, as) PROVE Unserializable(r)
    <3>1. PICK i \in DOMAIN shape[r].segments :
            /\ shape[r].segments[i] \in Unencodable
            /\ \/ /\ shape[r].segments[i] \notin Short
                  /\ CacheEnabled \/ Ideal!HasOutput(shape[r].segments[i], On) \/ shape[r].preview
               \/ shape[r].preview
               \/ written[r] # {}
      BY <1>3, <2>2 DEF Ideal!Breaks
    <3>2. Harmless(shape[r].segments[i], On)
      BY <1>0, <1>2 DEF Unbroken
    <3>3. shape[r].preview \/ written[r] # {}
      BY <3>1, <3>2 DEF Harmless
    <3>4. shape[r].preview => results[r] = <<>>
      BY <1>1, <1>2, <3>1 DEF OnTheWay
    <3> QED BY <1>5, <1>6, <3>1, <3>3, <3>4 DEF Unserializable
  <2> QED BY <2>1, <2>2
<1>8. CASE Unserializable(r)
  <2>1. pc'[r] = "raised"
    BY <1>1, <1>8 DEF Finish, Raise, Go, TypeOK
  <2>2. AnswerOf(r)' = [status |-> "raised", body |-> {}]
    BY <2>1 DEF AnswerOf
  <2> QED BY <1>3, <1>4, <1>7, <1>8, <2>2 DEF Promised, Ideal!Answered
<1>9. CASE ~Unserializable(r)
  <2>1. pc'[r] = "done"
    BY <1>1, <1>9 DEF Finish, Answer, Go, TypeOK
  <2>2. AnswerOf(r)' = [status |-> "answered", body |-> written[r]]
    <3>1. CASE shape[r].preview
      BY <1>1, <2>1, <3>1 DEF AnswerOf
    <3>2. CASE ~shape[r].preview /\ ~Changed(r)
      <4>1. report'[r] = Skipped("content_already_optimal")
        BY <1>1, <1>9, <3>2 DEF Finish, Answer, TypeOK
      <4>2. report'[r].reason = "content_already_optimal" /\ report'[r].body = {} /\ written[r] = {}
        BY <1>5, <3>2, <4>1 DEF Skipped
      <4> QED BY <1>1, <2>1, <3>2, <4>2 DEF AnswerOf
    <3>3. CASE ~shape[r].preview /\ Changed(r)
      <4>1. report'[r] = [applied |-> TRUE, reason |-> "none", body |-> written[r], results |-> results[r]]
        BY <1>1, <1>9, <3>3 DEF Finish, Answer, TypeOK
      <4>2. report'[r].reason = "none" /\ report'[r].body = written[r]
        BY <4>1
      <4> QED BY <1>1, <2>1, <3>3, <4>2 DEF AnswerOf
    <3> QED BY <3>1, <3>2, <3>3
  <2> QED BY <1>3, <1>4, <1>7, <1>9, <2>2 DEF Promised, Ideal!Answered
<1> QED BY <1>8, <1>9

\* A request that cannot be hashed or measured is one that Cacheless says breaks.
LEMMA RaisePromised ==
  ASSUME IInv, Alone, OnCourse, NEW r \in Requests, ComputeTextKey(r) \/ ApplyTransformer(r),
         pc'[r] = "raised"
  PROVE  \E as \in Ideal!Readings(shape[r]) : AnswerOf(r)' = Promised(r, as)
<1>1. /\ TypeOK /\ UpToDate(r) /\ Progress(r) /\ InLine
      /\ pc[r] \in {"key", "apply"} /\ pc[r] \in SegmentSteps /\ Running(r) /\ OnTheWay(r)
      /\ toggling = "idle"
  BY DEF ComputeTextKey, ApplyTransformer, IInv, Alone, InLine, OnCourse, Faithful, Running,
     Steps, SegmentSteps
<1>2. AnswerOf(r)' = [status |-> "raised", body |-> {}]
  BY DEF AnswerOf
<1>3. Ideal!Refusal(shape[r], optimizing) = "none"
  BY <1>1, IdealTerms DEF OnTheWay, Ideal!Refusal, Rejection
<1>4. at[r] \in DOMAIN shape[r].segments /\ Segment(r) = shape[r].segments[at[r]]
  BY <1>1, ShapeFacts DEF Progress, Segment, TypeOK
<1>5. /\ Segment(r) \in Unencodable /\ Segment(r) \notin Short
      /\ CacheEnabled \/ Ideal!HasOutput(Segment(r), On)
  <2>1. CASE ComputeTextKey(r)
    BY <1>1, <2>1 DEF ComputeTextKey, Go, TypeOK
  <2>2. CASE ApplyTransformer(r)
    <3>1. /\ pc[r] = "apply" /\ ~NoOutput(r) /\ Segment(r) \in Unencodable
      BY <1>1, <2>2 DEF ApplyTransformer, Go, Onward, TypeOK
    <3>2. Ideal!Taker(Segment(r), On) = Chosen(r)
      BY <1>1, <3>1, TakerNow DEF UpToDate, Chosen
    <3>3. Ideal!HasOutput(Segment(r), On)
      BY <3>1, <3>2 DEF Ideal!HasOutput, NoOutput
    <3> QED BY <1>1, <3>1, <3>3 DEF UpToDate, SegmentSteps
  <2> QED BY <2>1, <2>2
<1>6. \A as : Ideal!Breaks(shape[r], On, as)
  BY <1>4, <1>5 DEF Ideal!Breaks
<1>7. shape[r].segments \in Ideal!Readings(shape[r])
  BY <1>1, ShapeFacts, ReadsAsItIs DEF TypeOK
<1> QED BY <1>2, <1>3, <1>6, <1>7 DEF Promised, Ideal!Answered

\* A request that is refused is refused for the reason Cacheless gives.
LEMMA RefusalPromised ==
  ASSUME IInv, OnCourse, NEW r \in Requests, Transform(r) \/ Parse(r), pc'[r] = "done"
  PROVE  \E as \in Ideal!Readings(shape[r]) : AnswerOf(r)' = Promised(r, as)
<1>1. /\ TypeOK /\ Faithful(r) /\ UNCHANGED shape
  BY DEF IInv, OnCourse, Transform, Parse
<1>4. shape[r].segments \in Ideal!Readings(shape[r])
  BY <1>1, ShapeFacts, ReadsAsItIs DEF TypeOK
<1>2. CASE Transform(r)
  <2>1. /\ ~shape[r].preview /\ Decide(shape[r], optimizing) # Allow
        /\ report'[r] = Skipped(Decide(shape[r], optimizing))
    BY <1>1, <1>2 DEF Transform, Answer, Go, TypeOK
  <2> DEFINE reason == Decide(shape[r], optimizing)
  <2>2. /\ Ideal!Refusal(shape[r], optimizing) = reason
        /\ reason \notin {"none", "content_already_optimal"}
    BY <2>1, IdealTerms, DecideRefuses DEF Ideal!Refusal
  <2>3. report'[r].reason = reason /\ ~shape'[r].preview
    BY <1>1, <2>1 DEF Skipped
  <2> HIDE DEF reason
  <2> QED BY <1>4, <2>2, <2>3 DEF AnswerOf, Promised, Ideal!Answered
<1>3. CASE Parse(r)
  <2>1. /\ pc[r] = "parse" /\ Rejection(shape[r]) # "none"
        /\ report'[r] = Skipped(Rejection(shape[r]))
    BY <1>1, <1>3 DEF Parse, Answer, Go, TypeOK
  <2>2. ~shape[r].preview /\ Decide(shape[r], optimizing) = Allow
    BY <1>1, <2>1 DEF Faithful, OnTheWay, Running, Steps
  <2> DEFINE reason == Rejection(shape[r])
  <2>3. /\ Ideal!Refusal(shape[r], optimizing) = reason
        /\ reason \notin {"none", "content_already_optimal"}
    BY <2>1, <2>2, IdealTerms DEF Ideal!Refusal, Rejection
  <2>4. report'[r].reason = reason /\ ~shape'[r].preview
    BY <1>1, <2>1, <2>2 DEF Skipped
  <2> HIDE DEF reason
  <2> QED BY <1>4, <2>3, <2>4 DEF AnswerOf, Promised, Ideal!Answered
<1> QED BY <1>2, <1>3

\* A step of a request leaves its answer pending, or is the one that serves it.
LEMMA RequestServes ==
  ASSUME IInv, OnLoop, Alone, OnCourse, AllTraced, NEW r \in Requests,
         Transform(r) \/ Preview(r) \/ StartWorker(r) \/ Process(r)
  PROVE  [Ideal!Next]_(Ideal!ideal)
<1>1. /\ TypeOK /\ UNCHANGED <<control, shape>>
      /\ \A q \in Requests \ {r} : pc'[q] = pc[q] /\ written'[q] = written[q] /\ report'[q] = report[q]
  <2>1. TypeOK /\ InLine
    BY DEF IInv, Alone
  <2> QED BY <2>1, OthersUntouched, RequestInLine
<1>2. On' = On /\ optimizing' = optimizing
  BY <1>1 DEF On, control
<1>3. \A q \in Requests \ {r} : AnswerOf(q)' = AnswerOf(q)
  BY <1>1 DEF AnswerOf
<1>4. pc[r] \notin {"done", "raised"}
  BY DEF Transform, Preview, StartWorker, Process, Parse, SkipSegment, ComputeTextKey,
     ComputeDocumentKey, Hit, Miss, DetectType, PassThrough, ApplyTransformer,
     ExtractDocument, Store, Finish
<1>5. AnswerOf(r) = [status |-> "pending", body |-> {}]
  BY <1>4 DEF AnswerOf
<1>6. CASE pc'[r] \notin {"done", "raised"}
  <2>1. AnswerOf(r)' = AnswerOf(r)
    BY <1>5, <1>6 DEF AnswerOf
  <2>2. [q \in Requests |-> AnswerOf(q)]' = [q \in Requests |-> AnswerOf(q)]
    BY <1>3, <2>1
  <2> QED BY <1>1, <1>2, <2>2 DEF Ideal!ideal, On
<1>7. CASE pc'[r] \in {"done", "raised"}
  <2>1. \/ Finish(r)
        \/ (ComputeTextKey(r) \/ ApplyTransformer(r)) /\ pc'[r] = "raised"
        \/ (Transform(r) \/ Parse(r)) /\ pc'[r] = "done"
    <3> USE DEF TypeOK, Go, Raise, Answer, Onward
    <3>1. ~Preview(r) /\ ~StartWorker(r) /\ ~SkipSegment(r) /\ ~ComputeDocumentKey(r)
      BY <1>1, <1>7 DEF Preview, StartWorker, SkipSegment, ComputeDocumentKey
    <3>2. ~Hit(r) /\ ~Miss(r) /\ ~DetectType(r) /\ ~PassThrough(r)
      BY <1>1, <1>7 DEF Hit, Miss, DetectType, PassThrough
    <3>3. ~ExtractDocument(r) /\ ~Store(r)
      BY <1>1, <1>7 DEF ExtractDocument, Store
    <3>4. ComputeTextKey(r) \/ ApplyTransformer(r) => pc'[r] # "done"
      BY <1>1 DEF ComputeTextKey, ApplyTransformer
    <3>5. Transform(r) \/ Parse(r) => pc'[r] # "raised"
      BY <1>1 DEF Transform, Parse
    <3> QED BY <1>7, <3>1, <3>2, <3>3, <3>4, <3>5 DEF Process
  <2>2. PICK as \in Ideal!Readings(shape[r]) : AnswerOf(r)' = Promised(r, as)
    BY <2>1, FinishPromised, RaisePromised, RefusalPromised
  <2>3. [q \in Requests |-> AnswerOf(q)]' =
          [[q \in Requests |-> AnswerOf(q)] EXCEPT ![r] = Promised(r, as)]
    BY <1>3, <2>2
  <2>4. [q \in Requests |-> AnswerOf(q)][r] = Ideal!Pending
    BY <1>5 DEF Ideal!Pending
  <2>5. Ideal!Serve(r)
    BY <1>1, <1>2, <2>3, <2>4 DEF Ideal!Serve, Promised, On
  <2> QED BY <2>5 DEF Ideal!Next
<1> QED BY <1>6, <1>7

\* The pipeline implements Cacheless: whatever is cached, evicted or toggled between requests,
\* each request served on the loop is answered with what a pipeline without a cache answers
\* under the switches in force, its documents read as some spelling of their bytes.
THEOREM CachelessImplemented == Spec => AnswersAsCacheless
<1>1. Init => (OnLoop => Ideal!Init)
  <2>1. ASSUME Init PROVE Ideal!Init
    <3>1. \A r \in Requests : AnswerOf(r) = Ideal!Pending
      BY <2>1 DEF Init, AnswerOf, Ideal!Pending
    <3> QED BY <2>1, <3>1 DEF Init, Ideal!Init
  <2> QED BY <2>1
<1>2. IInv /\ AllTraced /\ (OnLoop => Alone) /\ (OnLoop => OnCourse) /\ [Next]_vars
        => [OnLoop => Ideal!Next]_(Ideal!ideal)
  <2>1. SUFFICES ASSUME IInv, AllTraced, OnLoop, Alone, OnCourse, [Next]_vars
                 PROVE  [Ideal!Next]_(Ideal!ideal)
    OBVIOUS
  <2>2. UNCHANGED shape /\ TypeOK /\ InLine
    BY <2>1, LoopIsStable DEF IInv, Alone
  <2>3. ASSUME NEW r \in Requests, Transform(r) \/ Preview(r) \/ StartWorker(r) \/ Process(r)
        PROVE  [Ideal!Next]_(Ideal!ideal)
    BY <2>1, <2>3, RequestServes
  <2>4. CASE \/ \E enabled \in BOOLEAN : SetOptimization(enabled) \/ SetPrompt(enabled)
             \/ Toggle
    <3>1. UNCHANGED <<shape, pc, written, report>>
      BY <2>2, <2>4, ToggleInLine DEF job
    <3>2. optimizing' \in BOOLEAN
      BY <2>2, <2>4 DEF TypeOK, SetOptimization, SetPrompt, Toggle, MoveTransformer, MoveSniffer
    <3>3. \A q \in Requests : AnswerOf(q)' = AnswerOf(q)
      BY <3>1 DEF AnswerOf
    <3>4. Ideal!Switch
      BY <3>1, <3>2, <3>3 DEF Ideal!Switch
    <3> QED BY <3>4 DEF Ideal!Next
  <2>5. CASE Evict \/ UNCHANGED vars
    <3>1. UNCHANGED <<optimizing, registry, shape, pc, written, report>>
      BY <2>5 DEF Evict, vars, control, job
    <3>2. \A q \in Requests : AnswerOf(q)' = AnswerOf(q)
      BY <3>1 DEF AnswerOf
    <3> QED BY <3>1, <3>2 DEF Ideal!ideal
  <2> QED BY <2>1, <2>3, <2>4, <2>5 DEF Next
<1>3. Init => OnCourse
  BY OnCourseInductive
<1>4. IInv /\ (OnLoop => Alone) /\ (OnLoop => OnCourse) /\ [Next]_vars => (OnLoop => OnCourse)'
  BY OnCourseInductive
<1> QED BY <1>1, <1>2, <1>3, <1>4, AloneInductive, TracedInductive, Inductive, PTL
        DEF Spec, AnswersAsCacheless
=============================================================================
