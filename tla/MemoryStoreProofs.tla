------------------------- MODULE MemoryStoreProofs -------------------------
(***************************************************************************)
(* Theorems about MemoryStore, for any number of callers, keys, uploads    *)
(* and attempts: type correctness, checksums that match their bodies, and  *)
(* the refinement of AtomicStore.                                          *)
(***************************************************************************)
EXTENDS MemoryStore, FiniteSetTheorems, TLAPS

-----------------------------------------------------------------------------
(* What the methods of the adapter do to its tables, whatever they are.    *)

MethodCalls ==
    [op : {"put", "get", "head", "delete", "copy", "initiate", "upload", "list",
           "complete", "abort"},
     key : Keys, target : Keys, strict : BOOLEAN, data : Data, summed : BOOLEAN,
     fed : BOOLEAN, id : 1..MaxUploads, part : PartNumbers]

SumsFit(t) == /\ \A k \in Keys : t.objects[k].sums \subseteq {t.objects[k].body}
              /\ \A i \in 1..MaxUploads : t.uploads[i].open => i <= t.seq /\ ~t.closed
              /\ t.closed => \A k \in Keys : ~t.objects[k].here

Fits(t, r, e) ==
    /\ e.answer \in {OK, "not_found", "closed"}
    /\ e.tables \in Tables /\ e.value \in Values
    /\ SumsFit(t) => SumsFit(e.tables)
    /\ \/ e.tables.seq = t.seq
       \/ r.op = "initiate" /\ e.tables.seq = t.seq + 1

LEMMA Basics ==
    /\ MaxUploads \in Nat
    /\ Nothing \in Values /\ Absent \in Objects /\ NoUpload \in Uploads
    /\ Empty \in Contents /\ NewTables \in Tables
<1>1. MaxUploads \in Nat
  BY MemoryAssumption
<1>2. Absent \in Objects /\ NoUpload \in Uploads /\ Empty \in Contents
  BY DEF Objects, Uploads, Contents
<1>3. Nothing \in Values
  BY <1>1, <1>2 DEF Nothing, Values
<1>4. NewTables \in Tables
  BY <1>1, <1>2 DEF NewTables, Tables
<1> QED BY <1>1, <1>2, <1>3, <1>4

LEMMA OpenUpload ==
    ASSUME NEW up \in Uploads
    PROVE  /\ up.parts \subseteq PartNumbers \X Contents
           /\ up.open => up \in [open : {TRUE}, key : Keys,
                                parts : SUBSET (PartNumbers \X Contents)]
<1>1. CASE up = NoUpload
  BY <1>1 DEF NoUpload
<1>2. CASE up \in [open : {TRUE}, key : Keys, parts : SUBSET (PartNumbers \X Contents)]
  BY <1>2
<1> QED BY <1>1, <1>2 DEF Uploads

LEMMA TableFields ==
    ASSUME NEW t \in Tables
    PROVE  /\ t = [objects |-> t.objects, uploads |-> t.uploads, seq |-> t.seq,
                   closed |-> t.closed]
           /\ t.objects \in [Keys -> Objects] /\ t.uploads \in [1..MaxUploads -> Uploads]
           /\ t.seq \in 0..MaxUploads /\ t.closed \in BOOLEAN
  BY DEF Tables

LEMMA FailedFits ==
    ASSUME NEW t \in Tables, NEW r, NEW k \in {OK, "not_found", "closed"}
    PROVE  Fits(t, r, Failed(t, k))
  BY Basics DEF Fits, Failed, Answered

\* An object written or removed.
LEMMA ObjectFits ==
    ASSUME NEW t \in Tables, ~t.closed, NEW r, NEW k \in Keys, NEW obj \in Objects,
           NEW v \in Values,
           SumsFit(t) => obj.sums \subseteq {obj.body}
    PROVE  Fits(t, r, Answered(OK, [t EXCEPT !.objects[k] = obj], v))
<1> DEFINE u == [t EXCEPT !.objects[k] = obj]
<1>1. u = [objects |-> [t.objects EXCEPT ![k] = obj], uploads |-> t.uploads,
           seq |-> t.seq, closed |-> t.closed]
  BY DEF Tables
<1>2. u \in Tables
  BY <1>1 DEF Tables
<1>3. SumsFit(t) => SumsFit(u)
  BY <1>1 DEF SumsFit, Tables
<1> QED BY <1>1, <1>2, <1>3 DEF Fits, Answered

\* An upload opened, extended or removed.
LEMMA UploadFits ==
    ASSUME NEW t \in Tables, ~t.closed, NEW r, NEW i \in 1..MaxUploads, NEW up \in Uploads,
           NEW v \in Values, SumsFit(t) /\ up.open => i <= t.seq
    PROVE  Fits(t, r, Answered(OK, [t EXCEPT !.uploads[i] = up], v))
<1> DEFINE u == [t EXCEPT !.uploads[i] = up]
<1>1. u = [objects |-> t.objects, uploads |-> [t.uploads EXCEPT ![i] = up],
           seq |-> t.seq, closed |-> t.closed]
  BY DEF Tables
<1>2. u \in Tables
  BY <1>1 DEF Tables
<1>3. SumsFit(t) => SumsFit(u)
  BY <1>1 DEF SumsFit, Tables
<1> QED BY <1>1, <1>2, <1>3 DEF Fits, Answered

Opens(t, n, up) == [t EXCEPT !.seq = n, !.uploads[n] = up]
Publishes(t, k, obj, i) == [t EXCEPT !.objects[k] = obj, !.uploads[i] = NoUpload]

LEMMA SeqAndUpload ==
    ASSUME NEW t \in Tables, NEW i, NEW up
    PROVE  Opens(t, i, up)
             = [objects |-> t.objects, uploads |-> [t.uploads EXCEPT ![i] = up],
                seq |-> i, closed |-> t.closed]
<1> DEFINE w == [t EXCEPT !.seq = i]
<1>1. [t EXCEPT !.seq = i, !.uploads[i] = up] = [w EXCEPT !.uploads[i] = up]
  OBVIOUS
<1>2. w = [objects |-> t.objects, uploads |-> t.uploads, seq |-> i, closed |-> t.closed]
  BY DEF Tables
<1> HIDE DEF w
<1>3. [w EXCEPT !.uploads[i] = up]
        = [objects |-> t.objects, uploads |-> [t.uploads EXCEPT ![i] = up],
           seq |-> i, closed |-> t.closed]
  BY <1>2
<1> QED BY <1>1, <1>3 DEF Opens

LEMMA ObjectAndUpload ==
    ASSUME NEW t \in Tables, NEW i, NEW k, NEW obj
    PROVE  Publishes(t, k, obj, i)
             = [objects |-> [t.objects EXCEPT ![k] = obj],
                uploads |-> [t.uploads EXCEPT ![i] = NoUpload], seq |-> t.seq,
                closed |-> t.closed]
<1> DEFINE o == [t EXCEPT !.objects[k] = obj]
<1>1. [t EXCEPT !.objects[k] = obj, !.uploads[i] = NoUpload] = [o EXCEPT !.uploads[i] = NoUpload]
  OBVIOUS
<1>2. o = [objects |-> [t.objects EXCEPT ![k] = obj], uploads |-> t.uploads,
           seq |-> t.seq, closed |-> t.closed]
  BY DEF Tables
<1> HIDE DEF o
<1>3. [o EXCEPT !.uploads[i] = NoUpload]
        = [objects |-> [t.objects EXCEPT ![k] = obj],
           uploads |-> [t.uploads EXCEPT ![i] = NoUpload], seq |-> t.seq, closed |-> t.closed]
  BY <1>2
<1> QED BY <1>1, <1>3 DEF Publishes

LEMMA EffectFits ==
    ASSUME NEW t \in Tables, NEW r \in MethodCalls, NEW b \in Contents,
           r.op = "initiate" /\ ~t.closed => t.seq < MaxUploads
    PROVE  Fits(t, r, Effect(t, r, b))
<1> USE Basics
<1>1. CASE t.closed
  BY <1>1, FailedFits DEF Effect
<1>2. CASE ~t.closed /\ r.op = "put"
  <2>1. Stored(b, IF r.summed THEN {b} ELSE {}) \in Objects
    BY DEF Stored, Objects
  <2> DEFINE obj == Stored(b, IF r.summed THEN {b} ELSE {})
  <2>2. obj.sums \subseteq {obj.body} /\ [Nothing EXCEPT !.object = obj] \in Values
    BY <2>1 DEF Stored, Nothing, Values
  <2>3. Effect(t, r, b) = Answered(OK, [t EXCEPT !.objects[r.key] = obj],
                                   [Nothing EXCEPT !.object = obj])
    BY <1>2 DEF Effect, PutObject
  <2>4. r.key \in Keys
    BY DEF MethodCalls
  <2>5. obj \in Objects
    BY <2>1
  <2>6. ASSUME NEW o \in Objects, o.sums \subseteq {o.body}, NEW v \in Values
        PROVE  Fits(t, r, Answered(OK, [t EXCEPT !.objects[r.key] = o], v))
    BY <1>2, <2>4, <2>6, ObjectFits
  <2> HIDE DEF obj
  <2> QED BY <2>2, <2>3, <2>5, <2>6
<1>3. CASE ~t.closed /\ r.op \in {"get", "head"}
  <2>1. CASE ~t.objects[r.key].here
    BY <1>3, <2>1, FailedFits DEF Effect, GetObject
  <2>2. CASE t.objects[r.key].here
    BY <1>3, <2>2 DEF Effect, GetObject, Answered, Fits, MethodCalls, Tables, Values, Nothing
  <2> QED BY <2>1, <2>2
<1>4. CASE ~t.closed /\ r.op = "delete"
  <2>1. CASE t.objects[r.key].here
    <3>1. r.key \in Keys /\ Absent.sums \subseteq {Absent.body}
      BY DEF MethodCalls, Absent
    <3>2. Effect(t, r, b) = Answered(OK, [t EXCEPT !.objects[r.key] = Absent], Nothing)
      BY <1>4, <2>1 DEF Effect, DeleteObject, Failed
    <3> QED BY <1>4, <3>1, <3>2, ObjectFits
  <2>2. CASE ~t.objects[r.key].here
    BY <1>4, <2>2, FailedFits DEF Effect, DeleteObject
  <2> QED BY <2>1, <2>2
<1>5. CASE ~t.closed /\ r.op = "copy"
  <2> DEFINE src == t.objects[r.key]
  <2>1. CASE ~src.here
    BY <1>5, <2>1, FailedFits DEF Effect, CopyObject
  <2>2. CASE src.here
    <3>1. r.key \in Keys /\ r.target \in Keys /\ src \in Objects
      BY DEF MethodCalls, Tables
    <3>2. SumsFit(t) => src.sums \subseteq {src.body}
      BY <3>1 DEF SumsFit
    <3>3. [Nothing EXCEPT !.object = src] \in Values
      BY <3>1 DEF Nothing, Values
    <3>4. Effect(t, r, b) = Answered(OK, [t EXCEPT !.objects[r.target] = src],
                                     [Nothing EXCEPT !.object = src])
      BY <1>5, <2>2 DEF Effect, CopyObject
    <3> HIDE DEF src
    <3> QED BY <1>5, <3>1, <3>2, <3>3, <3>4, ObjectFits
  <2> QED BY <2>1, <2>2
<1>6. CASE ~t.closed /\ r.op = "initiate"
  <2> DEFINE id == t.seq + 1
             up == [open |-> TRUE, key |-> r.key, parts |-> {}]
             u == Opens(t, id, up)
  <2>1. id \in 1..MaxUploads /\ id \in 0..MaxUploads /\ t.seq \in 0..MaxUploads
    BY <1>6 DEF Tables
  <2>2. up \in Uploads
    BY DEF Uploads, MethodCalls
  <2> HIDE DEF id, up
  <2>3. u = [objects |-> t.objects, uploads |-> [t.uploads EXCEPT ![id] = up],
             seq |-> id, closed |-> t.closed]
    BY SeqAndUpload
  <2>4. u \in Tables
    BY <2>1, <2>2, <2>3 DEF Tables
  <2>5. [Nothing EXCEPT !.id = id] \in Values
    BY <2>1 DEF Nothing, Values
  <2>6. SumsFit(t) => SumsFit(u)
    <3>1. u.objects = t.objects /\ u.seq = t.seq + 1 /\ ~u.closed
      BY <1>6, <2>3 DEF id
    <3>2. \A i \in 1..MaxUploads : u.uploads[i] = IF i = t.seq + 1 THEN up ELSE t.uploads[i]
      BY <2>3, TableFields DEF id
    <3> HIDE DEF u
    <3> QED BY <2>1, <3>1, <3>2 DEF SumsFit
  <2>7. Effect(t, r, b) = Answered(OK, u, [Nothing EXCEPT !.id = id])
    BY <1>6 DEF Effect, InitiateMultipart, Opens, id, up
  <2>8. u.seq = t.seq + 1
    BY <2>3 DEF id
  <2> HIDE DEF u
  <2> QED BY <1>6, <2>4, <2>5, <2>6, <2>7, <2>8 DEF Fits, Answered
<1>7. CASE ~t.closed /\ r.op \in {"upload", "list", "complete", "abort"} /\ ~Known(t, r)
  BY <1>7, FailedFits DEF Effect, ListParts, CompleteMultipart, AbortMultipart
<1>8. CASE ~t.closed /\ r.op = "upload" /\ Known(t, r)
  <2> DEFINE others == {q \in t.uploads[r.id].parts : q[1] # r.part}
             up == [t.uploads[r.id] EXCEPT !.parts = others \cup {<<r.part, b>>}]
  <2>1. /\ r.id \in 1..MaxUploads /\ t.uploads[r.id] \in Uploads /\ r.part \in PartNumbers
        /\ t.uploads[r.id].open
    BY <1>8 DEF MethodCalls, Tables, Known
  <2>2. t.uploads[r.id] \in [open : {TRUE}, key : Keys, parts : SUBSET (PartNumbers \X Contents)]
    BY <2>1, OpenUpload
  <2>3. others \cup {<<r.part, b>>} \in SUBSET (PartNumbers \X Contents)
    <3>1. others \subseteq PartNumbers \X Contents
      BY <2>1, OpenUpload
    <3>2. <<r.part, b>> \in PartNumbers \X Contents
      BY <2>1
    <3> HIDE DEF others
    <3> QED BY <3>1, <3>2
  <2>4. up \in Uploads
    BY <2>2, <2>3 DEF Uploads
  <2>5. SumsFit(t) => r.id <= t.seq
    BY <2>1 DEF SumsFit
  <2>6. [Nothing EXCEPT !.parts = {<<r.part, b>>}] \in Values
    BY <2>1 DEF Nothing, Values
  <2>7. [t EXCEPT !.uploads[r.id].parts = others \cup {<<r.part, b>>}]
          = [t EXCEPT !.uploads[r.id] = up]
    BY DEF Tables
  <2>8. Effect(t, r, b) = Answered(OK, [t EXCEPT !.uploads[r.id] = up],
                                   [Nothing EXCEPT !.parts = {<<r.part, b>>}])
    BY <1>8, <2>7 DEF Effect, UploadPart
  <2> HIDE DEF up
  <2> QED BY <1>8, <2>1, <2>4, <2>5, <2>6, <2>8, UploadFits
<1>9. CASE ~t.closed /\ r.op = "list" /\ Known(t, r)
  <2>1. t.uploads[r.id] \in Uploads /\ t.uploads[r.id].parts \subseteq PartNumbers \X Contents
    BY <1>9, OpenUpload, TableFields DEF MethodCalls
  <2> QED BY <1>9, <2>1 DEF Effect, ListParts, Answered, Fits, Values, Nothing
<1>10. CASE ~t.closed /\ r.op = "complete" /\ Known(t, r)
  <2> DEFINE obj == Stored(Empty, {})
             k == t.uploads[r.id].key
             u == Publishes(t, k, obj, r.id)
  <2>1. /\ r.id \in 1..MaxUploads /\ t.uploads[r.id] \in Uploads /\ t.uploads[r.id].open
    BY <1>10 DEF MethodCalls, Tables, Known
  <2>2. k \in Keys
    BY <2>1, OpenUpload
  <2>3. obj \in Objects /\ obj.sums = {}
    BY DEF Stored, Objects
  <2> HIDE DEF obj, k
  <2>4. u = [objects |-> [t.objects EXCEPT ![k] = obj],
             uploads |-> [t.uploads EXCEPT ![r.id] = NoUpload], seq |-> t.seq,
             closed |-> t.closed]
    BY ObjectAndUpload
  <2>5. u \in Tables
    BY <2>1, <2>2, <2>3, <2>4 DEF Tables
  <2>6. SumsFit(t) => SumsFit(u)
    BY <1>10, <2>2, <2>3, <2>4 DEF SumsFit, Tables, NoUpload
  <2>7. [Nothing EXCEPT !.object = obj] \in Values
    BY <2>3 DEF Nothing, Values
  <2>8. Effect(t, r, b) = Answered(OK, u, [Nothing EXCEPT !.object = obj])
    BY <1>10 DEF Effect, CompleteMultipart, Publishes, obj, k
  <2>9. u.seq = t.seq
    BY <2>4
  <2> HIDE DEF u
  <2> QED BY <2>5, <2>6, <2>7, <2>8, <2>9 DEF Fits, Answered
<1>11. CASE ~t.closed /\ r.op = "abort" /\ Known(t, r)
  <2>1. r.id \in 1..MaxUploads /\ ~NoUpload.open
    BY DEF MethodCalls, NoUpload
  <2>2. Effect(t, r, b) = Answered(OK, [t EXCEPT !.uploads[r.id] = NoUpload], Nothing)
    BY <1>11 DEF Effect, AbortMultipart, Failed
  <2> QED BY <1>11, <2>1, <2>2, UploadFits
<1>12. r.op \in {"put", "get", "head", "delete", "copy", "initiate", "upload", "list",
                 "complete", "abort"}
  BY DEF MethodCalls
<1> QED BY <1>1, <1>2, <1>3, <1>4, <1>5, <1>6, <1>7, <1>8, <1>9, <1>10, <1>11, <1>12

-----------------------------------------------------------------------------
(* The invariant.                                                          *)

\* Where a call is, and what it may have learned there.
Control ==
    \A p \in Procs :
      /\ stage[p] \in {"check", "run"} <=> phase[p] # "idle"
      /\ phase[p] # "idle" => req[p] \in MethodCalls
      /\ stage[p] = "free" => req[p] = NoRequest
      /\ stage[p] = "check" => req[p].op = "delete" /\ req[p].strict
      /\ stage[p] # "run" => value[p] = Nothing
      /\ phase[p] = "idle" => tries[p] = 0 /\ last[p] = "none"
      /\ phase[p] = "calling" => tries[p] > 0
      /\ phase[p] = "ready" /\ tries[p] > 0 => last[p] # "none"
      /\ IsRetryable(last[p]) => last[p] = "unavailable"

\* The calls that have an upload to initiate, and room for them.
Unperformed == {p \in Procs : req[p].op = "initiate" /\ ~Decided(p)}
Room == tables.seq + Cardinality(Unperformed) <= MaxUploads

Inv == /\ TypeOK
       /\ work \subseteq Requests
       /\ Control
       /\ Room
       /\ SumsFit(tables)

LEMMA Counted ==
    ASSUME NEW U, NEW V, U \subseteq Procs, V \subseteq U
    PROVE  /\ Cardinality(U) \in Nat /\ Cardinality(V) \in Nat
           /\ Cardinality(V) <= Cardinality(U)
           /\ \A p \in U : p \notin V => Cardinality(V) < Cardinality(U)
           /\ \A p \in Procs : Cardinality(U \cup {p}) <= Cardinality(U) + 1
<1>1. IsFiniteSet(U) /\ IsFiniteSet(V)
  BY FS_Subset, MemoryAssumption
<1>2. Cardinality(U) \in Nat /\ Cardinality(V) \in Nat
  BY <1>1, FS_CardinalityType
<1>3. Cardinality(V) <= Cardinality(U)
  BY <1>1, FS_Subset
<1>4. ASSUME NEW p \in U, p \notin V
      PROVE  Cardinality(V) < Cardinality(U)
  BY <1>1, <1>2, <1>4, FS_Subset
<1>5. ASSUME NEW p \in Procs
      PROVE  Cardinality(U \cup {p}) <= Cardinality(U) + 1
  <2>1. Cardinality(U \cup {p}) = IF p \in U THEN Cardinality(U) ELSE Cardinality(U) + 1
    BY <1>1, FS_AddElement
  <2> QED BY <1>2, <2>1
<1> QED BY <1>2, <1>3, <1>4, <1>5

\* A step that initiates nothing and begins no Initiate keeps the room.
LEMMA RoomKept ==
    ASSUME Inv, Unperformed' \subseteq Unperformed, tables'.seq = tables.seq
    PROVE  Room'
<1>1. Unperformed \subseteq Procs
  BY DEF Unperformed
<1>2. Cardinality(Unperformed') <= Cardinality(Unperformed)
      /\ Cardinality(Unperformed) \in Nat /\ Cardinality(Unperformed') \in Nat
  BY <1>1, Counted
<1>3. tables.seq \in Nat
  BY TableFields, Basics DEF Inv, TypeOK
<1> QED BY <1>2, <1>3, Basics DEF Inv, Room

LEMMA InitInv == Init => Inv
<1> SUFFICES ASSUME Init PROVE Inv
  OBVIOUS
<1>1. TypeOK
  <2>1. tables \in Tables /\ value \in [Procs -> Values]
    BY Basics DEF Init
  <2>2. tries \in [Procs -> 0..MaxAttempts]
    BY MemoryAssumption DEF Init, Run!Init
  <2>3. holder = Nobody
    BY DEF Init
  <2> QED BY <2>1, <2>2, <2>3 DEF Init, Run!Init, TypeOK, Rests
<1>2. Control
  BY DEF Init, Run!Init, Control, IsRetryable
<1>3. work \subseteq Requests
  BY MemoryAssumption DEF Init
<1>4. Room
  <2>1. Unperformed = {}
    BY DEF Unperformed, Init, NoRequest
  <2>2. Cardinality(Unperformed) = 0
    BY <2>1, FS_EmptySet
  <2>3. tables.seq = 0
    BY DEF Init, NewTables
  <2> QED BY <2>2, <2>3, Basics DEF Room
<1>5. SumsFit(tables)
  BY DEF Init, NewTables, SumsFit, Absent, NoUpload
<1> QED BY <1>1, <1>2, <1>3, <1>4, <1>5 DEF Inv

LEMMA BeginKeeps ==
    ASSUME Inv, NEW p \in Procs, NEW r \in work, Begin(p, r)
    PROVE  Inv'
<1>1. r \in Requests
  BY DEF Inv
<1>2. r.op = "health" \/ r.op = "close" \/ r \in MethodCalls
  BY <1>1, MemoryAssumption DEF MethodCalls
<1>3. /\ StageOf(r) \in {"check", "run", "probe", "close"}
      /\ StageOf(r) \in {"check", "run"} => r \in MethodCalls
      /\ StageOf(r) = "check" => r.op = "delete" /\ r.strict
  BY <1>2 DEF StageOf
<1>4. /\ stage[p] = "free" /\ phase[p] = "idle"
      /\ stage' = [stage EXCEPT ![p] = StageOf(r)] /\ req' = [req EXCEPT ![p] = r]
      /\ tables' = tables /\ work' = work /\ value' = value /\ holder' = holder
      /\ tries' = tries /\ last' = last /\ ended' = ended
      /\ result' = [result EXCEPT ![p] = "none"]
      /\ phase' = IF StageOf(r) \in {"check", "run"} THEN [phase EXCEPT ![p] = "ready"]
                                                      ELSE phase
  BY DEF Begin, Run!Start, Inv, Control, TypeOK
<1>5. TypeOK'
  <2>1. owed' \in [Procs -> BOOLEAN] /\ closed' \in BOOLEAN /\ rest' = rest /\ gauge' = gauge
    BY <1>1, MemoryAssumption DEF Begin, Inv, TypeOK
  <2>2. holder # Nobody => holder # p
    BY <1>4 DEF Inv, TypeOK
  <2> QED BY <1>1, <1>3, <1>4, <2>1, <2>2 DEF Inv, TypeOK
<1>6. Control'
  BY <1>3, <1>4 DEF Inv, TypeOK, Control
<1>7. Room'
  <2>1. CASE r.op # "initiate"
    <3>1. Unperformed' \subseteq Unperformed
      BY <1>4, <2>1 DEF Unperformed, Decided, Inv, TypeOK
    <3> QED BY <1>4, <3>1, RoomKept
  <2>2. CASE r.op = "initiate"
    <3>1. tables.seq + Cardinality(Initiates) < MaxUploads
      BY <2>2 DEF Begin
    <3>2. Unperformed' \subseteq Initiates \cup {p}
      BY <1>4 DEF Unperformed, Initiates, Inv, TypeOK
    <3>3. Initiates \subseteq Procs /\ Initiates \cup {p} \subseteq Procs
      BY DEF Initiates
    <3>4. /\ Cardinality(Initiates) \in Nat /\ Cardinality(Unperformed') \in Nat
          /\ Cardinality(Unperformed') <= Cardinality(Initiates \cup {p})
          /\ Cardinality(Initiates \cup {p}) \in Nat
      BY <3>2, <3>3, Counted
    <3>5. Cardinality(Initiates \cup {p}) <= Cardinality(Initiates) + 1
      BY <3>3, Counted
    <3>6. tables.seq \in Nat
      BY TableFields, Basics DEF Inv, TypeOK
    <3> QED BY <1>4, <3>1, <3>4, <3>5, <3>6, Basics DEF Room
  <2> QED BY <2>1, <2>2
<1> QED BY <1>4, <1>5, <1>6, <1>7 DEF Inv

LEMMA SmallStepKeeps ==
    ASSUME Inv, NEW p \in Procs,
           \/ \E r \in work : TurnAway(p, r)
           \/ CtxEnds(p) \/ Invoke(p) \/ Lock(p)
    PROVE  Inv'
<1>1. ASSUME NEW r \in work, TurnAway(p, r) PROVE Inv'
  <2>1. Unperformed' = Unperformed
    BY <1>1 DEF TurnAway, callVars, Unperformed, Decided
  <2>2. Room'
    BY <1>1, <2>1, RoomKept DEF TurnAway
  <2> QED BY <1>1, <2>2
          DEF TurnAway, callVars, Inv, TypeOK, Control, Answers, ErrorKinds, OK
<1>2. CASE CtxEnds(p)
  <2>1. Unperformed' = Unperformed
    BY <1>2 DEF CtxEnds, Run!CtxEnds, callVars, Unperformed, Decided
  <2>2. Room'
    BY <1>2, <2>1, RoomKept DEF CtxEnds
  <2> QED BY <1>2, <2>2 DEF CtxEnds, Run!CtxEnds, callVars, Inv, TypeOK, Control
<1>3. CASE Invoke(p)
  <2>1. /\ phase[p] = "ready" /\ phase' = [phase EXCEPT ![p] = "calling"]
        /\ tries' = [tries EXCEPT ![p] = tries[p] + 1] /\ tries[p] \in 0..MaxAttempts
        /\ tries[p] < MaxAttempts
        /\ tries[p] = 0 \/ IsRetryable(last[p])
        /\ UNCHANGED <<last, ended, result, work, callVars, holder, tables, closed, gauge>>
    BY <1>3, MemoryAssumption
       DEF Invoke, Run!Invoke, Run!MayInvoke, Run!IsRetryable, IsRetryable, Inv, TypeOK
  <2>2. Unperformed' \subseteq Unperformed
    BY <2>1 DEF callVars, Unperformed, Decided, Inv, TypeOK
  <2>3. Room'
    BY <2>1, <2>2, RoomKept
  <2>4. TypeOK'
    BY <2>1, MemoryAssumption DEF callVars, Inv, TypeOK
  <2>5. Control'
    BY <2>1 DEF callVars, Inv, TypeOK, Control
  <2> QED BY <2>1, <2>3, <2>4, <2>5 DEF Inv
<1>4. CASE Lock(p)
  <2>1. Unperformed' = Unperformed
    BY <1>4 DEF Lock, runVars, callVars, Unperformed, Decided
  <2>2. Room'
    BY <1>4, <2>1, RoomKept DEF Lock
  <2>3. phase[p] = "calling" /\ ReadsBody(req[p])
    BY <1>4 DEF Lock, WaitsForReader, Method, ReadsBody, Inv, TypeOK, Control
  <2> QED BY <1>4, <2>2, <2>3 DEF Lock, runVars, callVars, Inv, TypeOK, Control
<1> QED BY <1>1, <1>2, <1>3, <1>4

\* A method returns e: what it did to the tables fits, and if it initiated an
\* upload the call was counted among those that would.
LEMMA MethodReturnsKeeps ==
    ASSUME Inv, NEW p \in Procs, NEW e, phase[p] = "calling",
           Fits(tables, req[p], e) \/ e = Failed(tables, "unavailable"),
           stage[p] = "check" => e.tables = tables,
           MethodReturns(p, e), rest' \in [Procs -> Rests]
    PROVE  Inv'
<1> DEFINE k == e.answer
<1>1. /\ k \in {OK, "not_found", "closed", "unavailable"}
      /\ e.tables \in Tables /\ e.value \in Values /\ SumsFit(e.tables)
      /\ \/ e.tables.seq = tables.seq
         \/ req[p].op = "initiate" /\ k # "unavailable" /\ e.tables.seq = tables.seq + 1
  <2>1. CASE Fits(tables, req[p], e)
    <3>1. SumsFit(e.tables)
      BY <2>1, Zenon DEF Fits, Inv
    <3>2. k \in {OK, "not_found", "closed"} /\ k # "unavailable"
      BY <2>1 DEF Fits, OK
    <3>3. /\ e.tables \in Tables /\ e.value \in Values
          /\ \/ e.tables.seq = tables.seq
             \/ req[p].op = "initiate" /\ e.tables.seq = tables.seq + 1
      BY <2>1 DEF Fits
    <3> HIDE DEF k
    <3> QED BY <3>1, <3>2, <3>3
  <2>2. CASE e = Failed(tables, "unavailable")
    <3>1. e.answer = "unavailable" /\ e.tables = tables /\ e.value = Nothing
      BY <2>2 DEF Failed, Answered
    <3>2. SumsFit(e.tables) /\ e.tables \in Tables
      BY <3>1, Zenon DEF Inv, TypeOK
    <3> QED BY <3>1, <3>2, Basics
  <2> QED BY <2>1, <2>2
<1>2. /\ phase' = [phase EXCEPT ![p] = "ready"] /\ last' = [last EXCEPT ![p] = k]
      /\ tables' = e.tables /\ holder' = Nobody
      /\ value' = IF stage[p] = "check" THEN value ELSE [value EXCEPT ![p] = e.value]
      /\ UNCHANGED <<tries, ended, result, work, stage, req, owed, closed, gauge>>
  BY DEF MethodReturns, Run!Answer
<1> HIDE DEF k
<1>3. TypeOK'
  BY <1>1, <1>2 DEF Inv, TypeOK, Answers, ErrorKinds, OK
<1>4. stage[p] \in {"check", "run"}
  BY DEF Inv, Control
<1>5. Control'
  BY <1>1, <1>2, <1>4 DEF Inv, TypeOK, Control, IsRetryable, OK
<1>6. Room'
  <2>1. Unperformed' \subseteq Unperformed
    BY <1>2 DEF Unperformed, Decided, Inv, TypeOK
  <2>2. CASE e.tables.seq = tables.seq
    BY <1>2, <2>1, <2>2, RoomKept
  <2>3. CASE req[p].op = "initiate" /\ k # "unavailable" /\ e.tables.seq = tables.seq + 1
    <3>1. p \in Unperformed
      BY <2>3 DEF Unperformed, Decided
    <3>2. tries[p] > 0 /\ stage[p] = "run"
      BY <1>4, <2>3 DEF Inv, Control
    <3>3. p \notin Unperformed'
      BY <1>1, <1>2, <2>3, <3>2 DEF Unperformed, Decided, Inv, TypeOK, IsRetryable, OK
    <3>4. Unperformed \subseteq Procs
      BY DEF Unperformed
    <3>5. /\ Cardinality(Unperformed) \in Nat /\ Cardinality(Unperformed') \in Nat
          /\ Cardinality(Unperformed') < Cardinality(Unperformed)
      BY <2>1, <3>1, <3>3, <3>4, Counted
    <3>6. tables.seq \in Nat /\ tables'.seq = tables.seq + 1
      BY <1>2, <2>3, TableFields, Basics DEF Inv, TypeOK
    <3> QED BY <3>5, <3>6, Basics DEF Inv, Room
  <2> QED BY <1>1, <2>2, <2>3
<1> QED BY <1>1, <1>2, <1>3, <1>5, <1>6 DEF Inv

LEMMA MethodTyped ==
    ASSUME Inv, NEW p \in Procs, phase[p] = "calling"
    PROVE  /\ Method(p) \in MethodCalls /\ req[p] \in MethodCalls
           /\ Method(p).op = "initiate" => req[p].op = "initiate"
           /\ stage[p] = "run" => Method(p) = req[p]
           /\ stage[p] = "check" => Method(p).op = "head"
           /\ stage[p] \in {"check", "run"}
           /\ req[p].op = "initiate" => tables.seq < MaxUploads
<1>1. req[p] \in MethodCalls /\ stage[p] \in {"check", "run"}
  BY DEF Inv, Control
<1>2. [req[p] EXCEPT !.op = "head"] \in MethodCalls
      /\ [req[p] EXCEPT !.op = "head"].op = "head"
  BY <1>1 DEF MethodCalls
<1>3. ASSUME req[p].op = "initiate" PROVE tables.seq < MaxUploads
  <2>1. p \in Unperformed /\ Unperformed \subseteq Procs
    BY <1>3 DEF Unperformed, Decided
  <2>2. Cardinality(Unperformed) \in Nat /\ Cardinality({}) < Cardinality(Unperformed)
        /\ Cardinality({}) \in Nat
    BY <2>1, Counted
  <2>3. tables.seq \in Nat
    BY TableFields, Basics DEF Inv, TypeOK
  <2> QED BY <2>2, <2>3, Basics DEF Inv, Room
<1> QED BY <1>1, <1>2, <1>3 DEF Method

LEMMA ContentTyped ==
    ASSUME NEW r \in MethodCalls, NEW left \in Rests
    PROVE  Content(r, left) \in Contents
  BY DEF MethodCalls, Rests, Content, Contents

\* A head changes nothing.
LEMMA HeadChangesNothing ==
    ASSUME NEW t, NEW r, NEW b, r.op = "head"
    PROVE  Effect(t, r, b).tables = t
  BY DEF Effect, GetObject, Failed, Answered

LEMMA MethodKeeps ==
    ASSUME Inv, NEW p \in Procs, Section(p) \/ ReadEnds(p) \/ ReadFails(p)
    PROVE  Inv'
<1>1. CASE Section(p)
  <2> DEFINE e == Effect(tables, Method(p), Empty)
  <2>1. phase[p] = "calling" /\ MethodReturns(p, e) /\ rest' = rest
    BY <1>1 DEF Section
  <2>2. Fits(tables, Method(p), e)
    BY <2>1, MethodTyped, Basics, EffectFits DEF Inv, TypeOK
  <2>3. Fits(tables, req[p], e)
    BY <2>1, <2>2, MethodTyped DEF Fits
  <2>4. stage[p] = "check" => e.tables = tables
    BY <2>1, MethodTyped, HeadChangesNothing
  <2>5. rest' \in [Procs -> Rests]
    BY <2>1 DEF Inv, TypeOK
  <2> HIDE DEF e
  <2> QED BY <2>1, <2>3, <2>4, <2>5, MethodReturnsKeeps
<1>2. ASSUME holder = p
      PROVE  /\ phase[p] = "calling" /\ stage[p] = "run"
             /\ req[p] \in MethodCalls /\ rest[p] \in Rests
             /\ req[p].op = "initiate" => tables.seq < MaxUploads
  <2>1. phase[p] = "calling" /\ ReadsBody(req[p]) /\ rest[p] \in Rests
    BY <1>2, MemoryAssumption DEF Inv, TypeOK
  <2>2. stage[p] # "check"
    BY <2>1 DEF Inv, Control, ReadsBody
  <2> QED BY <2>1, <2>2, MethodTyped
<1>3. CASE ReadEnds(p)
  <2> DEFINE e == Effect(tables, req[p], Content(req[p], rest[p]))
  <2>1. holder = p /\ MethodReturns(p, e) /\ rest' = [rest EXCEPT ![p] = "empty"]
    BY <1>3 DEF ReadEnds
  <2>2. Fits(tables, req[p], e)
    BY <1>2, <2>1, ContentTyped, EffectFits DEF Inv, TypeOK
  <2>3. rest' \in [Procs -> Rests]
    BY <2>1 DEF Inv, TypeOK, Rests
  <2> HIDE DEF e
  <2> QED BY <1>2, <2>1, <2>2, <2>3, MethodReturnsKeeps
<1>4. CASE ReadFails(p)
  <2>1. holder = p /\ MethodReturns(p, Failed(tables, "unavailable"))
    BY <1>4 DEF ReadFails
  <2>2. rest' \in [Procs -> Rests]
    BY <1>4 DEF ReadFails, Left, Inv, TypeOK, Rests
  <2> QED BY <1>2, <2>1, <2>2, MethodReturnsKeeps
<1> QED BY <1>1, <1>3, <1>4

\* A call that ends is gone.
LEMMA EndsKeeps ==
    ASSUME Inv, NEW p \in Procs, Ends(p), p # holder, NEW k \in Answers,
           result' = [result EXCEPT ![p] = k],
           phase' = [phase EXCEPT ![p] = "idle"], tries' = [tries EXCEPT ![p] = 0],
           last' = [last EXCEPT ![p] = "none"], ended' = [ended EXCEPT ![p] = FALSE],
           tables' \in Tables, SumsFit(tables'), tables'.seq = tables.seq,
           closed' = closed, gauge' \in {"unset", "0", "0.5", "1"}
    PROVE  Inv'
<1>1. /\ stage' = [stage EXCEPT ![p] = "free"] /\ req' = [req EXCEPT ![p] = NoRequest]
      /\ rest' = [rest EXCEPT ![p] = "whole"] /\ value' = [value EXCEPT ![p] = Nothing]
      /\ work' = work /\ holder' = holder
  BY DEF Ends
<1>2. owed' \in [Procs -> BOOLEAN]
  BY DEF Ends, Fed, Inv, TypeOK
<1>3. TypeOK'
  <2>1. rest' \in [Procs -> Rests] /\ value' \in [Procs -> Values]
    BY <1>1, Basics DEF Inv, TypeOK, Rests
  <2>2. tries' \in [Procs -> 0..MaxAttempts]
    BY MemoryAssumption DEF Inv, TypeOK
  <2>3. holder # Nobody => phase'[holder] = "calling" /\ ReadsBody(req'[holder])
    BY <1>1 DEF Inv, TypeOK
  <2> QED BY <1>1, <1>2, <2>1, <2>2, <2>3 DEF Inv, TypeOK
<1>4. Control'
  BY <1>1 DEF Inv, TypeOK, Control, IsRetryable
<1>5. Unperformed' \subseteq Unperformed
  BY <1>1 DEF Unperformed, Decided, Inv, TypeOK, NoRequest
<1>6. Room'
  BY <1>5, RoomKept
<1> QED BY <1>1, <1>3, <1>4, <1>6 DEF Inv
LEMMA FinishKeeps ==
    ASSUME Inv, NEW p \in Procs, NEW k \in {last[p], "canceled", "unavailable"},
           Finish(p, k) \/ FinishCheck(p, k)
    PROVE  Inv'
<1>1. k \in Answers /\ UNCHANGED <<tables, closed, gauge>>
  <2>1. ASSUME Run!MayReturn(p, k) PROVE k # "none"
    <3>1. CASE Run!Final(p) /\ k = last[p]
      BY <3>1 DEF Run!Final, Finish, FinishCheck, Run!Finish, Inv, TypeOK, Control
    <3> QED BY <2>1, <3>1 DEF Run!MayReturn
  <2>2. Run!MayReturn(p, k)
    BY DEF Finish, FinishCheck, Run!Finish
  <2> QED BY <2>1, <2>2 DEF Finish, FinishCheck, Inv, TypeOK, Answers, ErrorKinds
<1>2. CASE Run!Finish(p, k) /\ Ends(p)
  <2>1. p # holder
    BY <1>2, MemoryAssumption DEF Run!Finish, Run!Leave, Inv, TypeOK
  <2>2. tables' \in Tables /\ SumsFit(tables') /\ tables'.seq = tables.seq
        /\ closed' = closed /\ gauge' \in {"unset", "0", "0.5", "1"}
    BY <1>1 DEF Inv, TypeOK
  <2> QED BY <1>1, <1>2, <2>1, <2>2, EndsKeeps DEF Run!Finish, Run!Leave
<1>3. CASE stage[p] = "check" /\ k = OK /\ FinishCheck(p, k)
  <2>1. /\ phase[p] = "ready"
        /\ tries' = [tries EXCEPT ![p] = 0] /\ last' = [last EXCEPT ![p] = "none"]
        /\ stage' = [stage EXCEPT ![p] = "run"]
        /\ UNCHANGED <<phase, ended, result, work, req, rest, owed, value, holder>>
    BY <1>3 DEF FinishCheck
  <2>2. TypeOK'
    BY <1>1, <2>1, MemoryAssumption DEF Inv, TypeOK
  <2>3. Control'
    BY <1>3, <2>1 DEF Inv, TypeOK, Control, IsRetryable
  <2>4. req[p].op # "initiate"
    BY <1>3 DEF Inv, Control
  <2>5. Unperformed' \subseteq Unperformed
    BY <2>1, <2>4 DEF Unperformed, Decided, Inv, TypeOK
  <2>6. Room'
    BY <1>1, <2>5, RoomKept
  <2> QED BY <1>1, <2>1, <2>2, <2>3, <2>6 DEF Inv
<1> QED BY <1>2, <1>3 DEF Finish, FinishCheck

LEMMA LifecycleKeeps ==
    ASSUME Inv, NEW p \in Procs,
           CloseAdapter(p) \/ \E k \in {OK, "closed"} \cup Faults : Report(p, k)
    PROVE  Inv'
<1> DEFINE Outside == /\ phase[p] = "idle" /\ stage[p] \in {"probe", "close"} /\ holder = Nobody
                      /\ UNCHANGED <<phase, tries, last, ended, closed>> /\ Ends(p)
<1>1. Outside
  BY DEF CloseAdapter, Report, Inv, Control
<1>2. ASSUME NEW k \in Answers, result' = [result EXCEPT ![p] = k],
             tables' \in Tables, SumsFit(tables'), tables'.seq = tables.seq,
             gauge' \in {"unset", "0", "0.5", "1"}
      PROVE  Inv'
  <2>1. /\ stage' = [stage EXCEPT ![p] = "free"] /\ req' = [req EXCEPT ![p] = NoRequest]
        /\ rest' = [rest EXCEPT ![p] = "whole"] /\ value' = [value EXCEPT ![p] = Nothing]
        /\ work' = work /\ holder' = holder
    BY <1>1 DEF Ends
  <2>2. owed' \in [Procs -> BOOLEAN]
    BY <1>1 DEF Ends, Fed, Inv, TypeOK
  <2>3. rest' \in [Procs -> Rests] /\ value' \in [Procs -> Values]
    BY <2>1, Basics DEF Inv, TypeOK, Rests
  <2>4. TypeOK'
    BY <1>1, <1>2, <2>1, <2>2, <2>3 DEF Inv, TypeOK
  <2>5. Control'
    BY <1>1, <2>1 DEF Inv, TypeOK, Control
  <2>6. Unperformed' \subseteq Unperformed
    BY <1>1, <2>1 DEF Unperformed, Decided, Inv, TypeOK, NoRequest
  <2>7. Room'
    BY <1>2, <2>6, RoomKept
  <2> QED BY <1>2, <2>1, <2>4, <2>5, <2>7 DEF Inv
<1>3. CASE CloseAdapter(p)
  <2>1. tables' = Cleared(tables) /\ result' = [result EXCEPT ![p] = OK] /\ gauge' = gauge
    BY <1>3 DEF CloseAdapter
  <2>2. tables.seq \in 0..MaxUploads
    BY TableFields DEF Inv, TypeOK
  <2>3. tables' \in Tables /\ tables'.seq = tables.seq
    BY <2>1, <2>2, Basics DEF Cleared, NewTables, Tables
  <2>4. SumsFit(tables')
    BY <2>1 DEF Cleared, NewTables, SumsFit, Absent, NoUpload
  <2> QED BY <1>2, <2>1, <2>3, <2>4 DEF Inv, TypeOK, Answers
<1>4. ASSUME NEW k \in {OK, "closed"} \cup Faults, Report(p, k)
      PROVE  Inv'
  <2>1. k \in Answers
    BY MemoryAssumption DEF Answers, ErrorKinds
  <2>2. result' = [result EXCEPT ![p] = k] /\ tables' = tables
        /\ gauge' \in {"unset", "0", "0.5", "1"}
    BY <1>4 DEF Report, gaugeForStatus, Inv, TypeOK
  <2> QED BY <1>2, <2>1, <2>2 DEF Inv, TypeOK
<1> QED BY <1>3, <1>4

\* The invariant: types, where each call is, room for its upload, fitting checksums.
THEOREM Invariance == Spec => []Inv
<1>1. Init => Inv
  BY InitInv
<1>2. Inv /\ [Next]_vars => Inv'
  <2> SUFFICES ASSUME Inv, [Next]_vars PROVE Inv'
    OBVIOUS
  <2>1. CASE UNCHANGED vars
    <3>1. Unperformed' = Unperformed
      BY <2>1 DEF vars, runVars, callVars, Unperformed, Decided
    <3>2. Room'
      BY <2>1, <3>1, RoomKept DEF vars
    <3> QED BY <2>1, <3>2 DEF vars, runVars, callVars, Inv, TypeOK, Control
  <2>2. ASSUME NEW p \in Procs, NEW r \in work, Begin(p, r) \/ TurnAway(p, r)
        PROVE  Inv'
    BY <2>2, BeginKeeps, SmallStepKeeps
  <2>3. ASSUME NEW p \in Procs, CtxEnds(p) \/ Enter(p) \/ Proceed(p)
        PROVE  Inv'
    BY <2>3, SmallStepKeeps, MethodKeeps, LifecycleKeeps, FinishKeeps DEF Enter, Proceed
  <2> QED BY <2>1, <2>2, <2>3 DEF Next
<1> QED BY <1>1, <1>2, PTL DEF Spec

\* The state of a store and its adapter keeps its shape, and a mutex that is held is
\* held by a call that reads a body.
THEOREM TypeCorrect == Spec => []TypeOK
<1>1. Inv => TypeOK
  BY DEF Inv
<1> QED BY Invariance, <1>1, PTL

\* Every object's checksum is that of its own body, open uploads have ids that were
\* handed out, and a closed adapter keeps nothing.
THEOREM SumsMatch == Spec => []SumsMatchBodies
<1>1. Inv => SumsMatchBodies
  BY DEF Inv, SumsFit, SumsMatchBodies
<1> QED BY Invariance, <1>1, PTL
-----------------------------------------------------------------------------
(* The refinement.                                                         *)

LEMMA SameNames ==
    /\ Atomic!Nothing = Nothing /\ Atomic!NoRequest = NoRequest /\ Atomic!OK = OK
    /\ Atomic!NoOutcome = [answer |-> "none", value |-> Nothing]
    /\ Atomic!Rests = Rests
    /\ \A t, r, b : Atomic!Effect(t, r, b) = Effect(t, r, b)
    /\ \A r, left : Atomic!Content(r, left) = Content(r, left)
    /\ \A t : Atomic!Cleared(t) = Cleared(t)
<1>1. Atomic!Nothing = Nothing /\ Atomic!NoRequest = NoRequest /\ Atomic!OK = OK
  BY DEF Atomic!Nothing, Nothing, Atomic!NoRequest, NoRequest, Atomic!OK, OK,
         Atomic!Absent, Absent, Atomic!Empty, Empty
<1>2. Atomic!NoOutcome = [answer |-> "none", value |-> Nothing] /\ Atomic!Rests = Rests
  BY <1>1 DEF Atomic!NoOutcome, Atomic!Rests, Rests
<1>3. ASSUME NEW t, NEW r, NEW b PROVE Atomic!Effect(t, r, b) = Effect(t, r, b)
  BY DEF Atomic!Effect, Effect, Atomic!Failed, Failed, Atomic!Answered, Answered,
         Atomic!PutObject, PutObject, Atomic!GetObject, GetObject,
         Atomic!DeleteObject, DeleteObject, Atomic!CopyObject, CopyObject,
         Atomic!InitiateMultipart, InitiateMultipart, Atomic!UploadPart, UploadPart,
         Atomic!ListParts, ListParts, Atomic!CompleteMultipart, CompleteMultipart,
         Atomic!AbortMultipart, AbortMultipart, Atomic!Known, Known, Atomic!Stored, Stored,
         Atomic!NoUpload, NoUpload, Atomic!Nothing, Nothing, Atomic!OK, OK,
         Atomic!Absent, Absent, Atomic!Empty, Empty
<1>4. ASSUME NEW r, NEW left PROVE Atomic!Content(r, left) = Content(r, left)
  BY DEF Atomic!Content, Content, Atomic!Empty, Empty
<1>5. ASSUME NEW t PROVE Atomic!Cleared(t) = Cleared(t)
  BY DEF Atomic!Cleared, Cleared, Atomic!NewTables, NewTables, Atomic!Absent, Absent,
         Atomic!NoUpload, NoUpload, Atomic!Empty, Empty
<1> QED BY <1>1, <1>2, <1>3, <1>4, <1>5

Same(q) == /\ stage'[q] = stage[q] /\ phase'[q] = phase[q] /\ tries'[q] = tries[q]
           /\ last'[q] = last[q] /\ req'[q] = req[q] /\ value'[q] = value[q]
           /\ result'[q] = result[q]

\* What callers see of a step of p alone.
LEMMA OneMoves ==
    ASSUME NEW p \in Procs, \A q \in Procs : q # p => Same(q)
    PROVE  /\ CallSeen' = [CallSeen EXCEPT ![p] = CallOf(p)']
           /\ RequestSeen' = [RequestSeen EXCEPT ![p] =
                IF stage'[p] \in {"check", "run"} THEN req'[p] ELSE NoRequest]
           /\ OutcomeSeen' = [OutcomeSeen EXCEPT ![p] =
                IF Decided(p)' THEN [answer |-> last'[p], value |-> value'[p]]
                ELSE [answer |-> "none", value |-> Nothing]]
           /\ ResultSeen' = [ResultSeen EXCEPT ![p] =
                IF stage'[p] = "free" THEN result'[p] ELSE "none"]
<1>1. \A q \in Procs : q # p => Decided(q)' = Decided(q)
  BY DEF Same, Decided
<1>2. \A q \in Procs : q # p => CallOf(q)' = CallOf(q)
  BY <1>1 DEF Same, CallOf
<1>3. CallSeen' = [CallSeen EXCEPT ![p] = CallOf(p)']
  BY <1>2 DEF CallSeen
<1>4. RequestSeen' = [RequestSeen EXCEPT ![p] =
        IF stage'[p] \in {"check", "run"} THEN req'[p] ELSE NoRequest]
  BY DEF RequestSeen, Same
<1>5. OutcomeSeen' = [OutcomeSeen EXCEPT ![p] =
        IF Decided(p)' THEN [answer |-> last'[p], value |-> value'[p]]
        ELSE [answer |-> "none", value |-> Nothing]]
  BY <1>1 DEF OutcomeSeen, Same
<1>6. ResultSeen' = [ResultSeen EXCEPT ![p] =
        IF stage'[p] = "free" THEN result'[p] ELSE "none"]
  BY DEF ResultSeen, Same
<1> QED BY <1>3, <1>4, <1>5, <1>6

\* What callers see of a step that tells p nothing.
LEMMA NothingSeen ==
    ASSUME NEW p \in Procs, \A q \in Procs : q # p => Same(q),
           CallOf(p)' = CallOf(p), ~Decided(p), ~Decided(p)',
           stage[p] \in {"check", "run"}, stage'[p] \in {"check", "run"}, req'[p] = req[p],
           tables' = tables, closed' = closed
    PROVE  UNCHANGED Atomic!vars
<1>1. CallSeen' = CallSeen
  BY OneMoves DEF CallSeen
<1>2. RequestSeen' = RequestSeen
  BY OneMoves DEF RequestSeen
<1>3. OutcomeSeen' = OutcomeSeen
  BY OneMoves DEF OutcomeSeen
<1>4. ResultSeen' = ResultSeen
  BY OneMoves DEF ResultSeen
<1> QED BY <1>1, <1>2, <1>3, <1>4 DEF Atomic!vars

LEMMA BeginMaps ==
    ASSUME Inv, NEW p \in Procs, NEW r \in work, Begin(p, r)
    PROVE  Atomic!Next
<1>1. r \in Requests /\ (r.op = "health" \/ r.op = "close" \/ r \in MethodCalls)
  BY MemoryAssumption DEF Inv, MethodCalls
<1>2. /\ stage[p] = "free" /\ phase[p] = "idle" /\ tries[p] = 0 /\ ~closed
      /\ stage' = [stage EXCEPT ![p] = StageOf(r)] /\ req' = [req EXCEPT ![p] = r]
      /\ tables' = tables /\ value' = value /\ tries' = tries /\ last' = last
      /\ result' = [result EXCEPT ![p] = "none"]
      /\ phase' = IF StageOf(r) \in {"check", "run"} THEN [phase EXCEPT ![p] = "ready"]
                                                      ELSE phase
      /\ closed' = (r.op = "close") /\ closed = FALSE
  BY DEF Begin, Run!Start, Inv, Control, TypeOK
<1>3. \A q \in Procs : q # p => Same(q)
  BY <1>2 DEF Same, Inv, TypeOK
<1>4. ~Decided(p) /\ ~Decided(p)'
  BY <1>2 DEF Decided
<1>5. CallOf(p) = "none" /\ CallSeen[p] = "none"
  BY <1>2 DEF CallOf, CallSeen
<1>6. stage'[p] = StageOf(r) /\ req'[p] = r /\ result'[p] = "none"
  BY <1>2 DEF Inv, TypeOK
<1>7. OutcomeSeen' = OutcomeSeen
  BY <1>3, <1>4, OneMoves DEF OutcomeSeen
<1>8. StageOf(r) # "free"
  BY DEF StageOf
<1>9. ResultSeen' = [ResultSeen EXCEPT ![p] = "none"]
  BY <1>3, <1>6, <1>8, OneMoves
<1>10. CASE r.op = "health" \/ r.op = "close"
  <2>1. StageOf(r) = IF r.op = "health" THEN "probe" ELSE "close"
    BY <1>10 DEF StageOf
  <2>2. RequestSeen' = RequestSeen
    BY <1>2, <1>3, <1>6, <2>1, OneMoves DEF RequestSeen
  <2>3. CallOf(p)' = IF r.op = "health" THEN "probing" ELSE "closing"
    BY <1>6, <2>1 DEF CallOf
  <2>4. CallSeen' = [CallSeen EXCEPT ![p] = CallOf(p)']
    BY <1>3, OneMoves
  <2>5. CASE r.op = "health"
    <3>1. Atomic!Probe(p)
      BY <1>2, <1>5, <1>7, <1>9, <2>2, <2>3, <2>4, <2>5 DEF Atomic!Probe, Atomic!Begins
    <3> QED BY <3>1 DEF Atomic!Next
  <2>6. CASE r.op = "close"
    <3>1. Atomic!Close(p)
      BY <1>2, <1>5, <1>7, <1>9, <2>2, <2>3, <2>4, <2>6 DEF Atomic!Close, Atomic!Begins
    <3> QED BY <3>1 DEF Atomic!Next
  <2> QED BY <1>10, <2>5, <2>6
<1>11. CASE r \in MethodCalls
  <2>1. StageOf(r) \in {"check", "run"} /\ r.op # "close"
    BY <1>11 DEF StageOf, MethodCalls
  <2>2. RequestSeen' = [RequestSeen EXCEPT ![p] = r]
    BY <1>3, <1>6, <2>1, OneMoves
  <2>3. CallOf(p)' = "pending"
    BY <1>4, <1>6, <2>1 DEF CallOf
  <2>4. CallSeen' = [CallSeen EXCEPT ![p] = "pending"]
    BY <1>3, <2>3, OneMoves
  <2>5. Atomic!Invoke(p, r)
    BY <1>2, <1>5, <1>7, <1>9, <2>1, <2>2, <2>4 DEF Atomic!Invoke, Atomic!Begins
  <2> QED BY <1>1, <2>5 DEF Atomic!Next
<1> QED BY <1>1, <1>10, <1>11

LEMMA TurnAwayMaps ==
    ASSUME Inv, NEW p \in Procs, NEW r \in work, TurnAway(p, r)
    PROVE  Atomic!Next
<1>1. /\ stage[p] = "free" /\ closed
      /\ result' = [result EXCEPT ![p] = IF r.op = "close" THEN OK ELSE "closed"]
      /\ UNCHANGED <<phase, tries, last, stage, req, value, tables, closed>>
  BY DEF TurnAway, callVars
<1>2. /\ CallSeen' = CallSeen /\ RequestSeen' = RequestSeen /\ OutcomeSeen' = OutcomeSeen
      /\ CallSeen[p] = "none"
  BY <1>1 DEF CallSeen, RequestSeen, OutcomeSeen, CallOf, Decided
<1>3. ResultSeen' = [ResultSeen EXCEPT ![p] = IF r.op = "close" THEN OK ELSE "closed"]
  BY <1>1 DEF ResultSeen, Inv, TypeOK
<1>4. Atomic!TurnAway(p) \/ Atomic!CloseAgain(p)
  BY <1>1, <1>2, <1>3, SameNames DEF Atomic!TurnAway, Atomic!CloseAgain
<1> QED BY <1>4 DEF Atomic!Next

\* CtxEnds, Invoke and Lock are between a caller and its attempts.
LEMMA SmallStepMaps ==
    ASSUME Inv, NEW p \in Procs, CtxEnds(p) \/ Invoke(p) \/ Lock(p)
    PROVE  UNCHANGED Atomic!vars
<1>1. CASE CtxEnds(p) \/ Lock(p)
  <2>1. UNCHANGED <<phase, tries, last, result, stage, req, value, tables, closed>>
    BY <1>1 DEF CtxEnds, Run!CtxEnds, Lock, runVars, callVars
  <2> QED BY <2>1 DEF Atomic!vars, CallSeen, RequestSeen, OutcomeSeen, ResultSeen, CallOf,
                      Decided
<1>2. CASE Invoke(p)
  <2>1. /\ phase[p] = "ready"
        /\ tries[p] = 0 \/ IsRetryable(last[p])
        /\ phase' = [phase EXCEPT ![p] = "calling"]
        /\ tries' = [tries EXCEPT ![p] = tries[p] + 1]
        /\ UNCHANGED <<last, result, stage, req, value, tables, closed>>
    BY <1>2 DEF Invoke, Run!Invoke, Run!MayInvoke, Run!IsRetryable, IsRetryable, callVars
  <2>2. \A q \in Procs : q # p => Same(q)
    BY <2>1 DEF Same, Inv, TypeOK
  <2>3. ~Decided(p) /\ ~Decided(p)'
    BY <2>1 DEF Decided, Inv, TypeOK
  <2>4. stage[p] \in {"check", "run"} /\ stage' = stage /\ req' = req
    BY <2>1 DEF Inv, Control
  <2>5. CallOf(p)' = CallOf(p)
    BY <2>3, <2>4 DEF CallOf
  <2> QED BY <2>1, <2>2, <2>3, <2>4, <2>5, NothingSeen
<1> QED BY <1>1, <1>2

\* A method returns the outcome of its section, which its caller will not try again.
LEMMA EffectMaps ==
    ASSUME Inv, NEW p \in Procs, NEW e, NEW left \in Rests, phase[p] = "calling",
           e = Effect(tables, req[p], Content(req[p], left)), MethodReturns(p, e),
           e.answer \in {OK, "not_found", "closed"},
           stage[p] = "check" => e.answer # OK /\ e.value = Nothing
    PROVE  Atomic!Next
<1>1. /\ phase' = [phase EXCEPT ![p] = "ready"] /\ last' = [last EXCEPT ![p] = e.answer]
      /\ tables' = e.tables
      /\ value' = IF stage[p] = "check" THEN value ELSE [value EXCEPT ![p] = e.value]
      /\ UNCHANGED <<tries, result, stage, req, closed>>
  BY DEF MethodReturns, Run!Answer
<1>2. \A q \in Procs : q # p => Same(q)
  BY <1>1 DEF Same, Inv, TypeOK
<1>3. stage[p] \in {"check", "run"} /\ tries[p] > 0
  BY DEF Inv, Control
<1>4. last'[p] = e.answer /\ value'[p] = e.value
  BY <1>1, <1>3 DEF Inv, TypeOK, Control
<1>5. ~Decided(p) /\ Decided(p)'
  BY <1>1, <1>3, <1>4 DEF Decided, Inv, TypeOK, IsRetryable, OK
<1>6. CallOf(p) = "pending" /\ CallSeen[p] = "pending" /\ CallOf(p)' = "done"
  BY <1>1, <1>3, <1>5 DEF CallOf, CallSeen
<1>7. CallSeen' = [CallSeen EXCEPT ![p] = "done"]
  BY <1>2, <1>6, OneMoves
<1>8. OutcomeSeen' = [OutcomeSeen EXCEPT ![p] = [answer |-> e.answer, value |-> e.value]]
  BY <1>2, <1>4, <1>5, OneMoves
<1>9. RequestSeen' = RequestSeen /\ ResultSeen' = ResultSeen /\ RequestSeen[p] = req[p]
  BY <1>1, <1>3 DEF RequestSeen, ResultSeen
<1>10. e = Atomic!Effect(tables, RequestSeen[p], Atomic!Content(RequestSeen[p], left))
  BY <1>9, SameNames
<1>11. Atomic!Perform(p)
  BY <1>1, <1>6, <1>7, <1>8, <1>9, <1>10, SameNames DEF Atomic!Perform
<1> QED BY <1>11 DEF Atomic!Next

\* A failed read, or a head that lets Delete go on, is not seen.
LEMMA UndecidedMaps ==
    ASSUME Inv, NEW p \in Procs, NEW e, phase[p] = "calling", MethodReturns(p, e),
           e.tables = tables,
           IsRetryable(e.answer) \/ (stage[p] = "check" /\ e.answer = OK)
    PROVE  UNCHANGED Atomic!vars
<1>1. /\ phase' = [phase EXCEPT ![p] = "ready"] /\ last' = [last EXCEPT ![p] = e.answer]
      /\ tables' = tables
      /\ value' = IF stage[p] = "check" THEN value ELSE [value EXCEPT ![p] = e.value]
      /\ UNCHANGED <<tries, result, stage, req, closed>>
  BY DEF MethodReturns, Run!Answer
<1>2. \A q \in Procs : q # p => Same(q)
  BY <1>1 DEF Same, Inv, TypeOK
<1>3. stage[p] \in {"check", "run"} /\ stage'[p] = stage[p] /\ req'[p] = req[p]
  BY <1>1 DEF Inv, Control
<1>4. ~Decided(p) /\ ~Decided(p)'
  BY <1>1, <1>3 DEF Decided, Inv, TypeOK
<1>5. CallOf(p)' = CallOf(p)
  BY <1>3, <1>4 DEF CallOf
<1> QED BY <1>1, <1>2, <1>3, <1>4, <1>5, NothingSeen

\* A strict delete whose head finds nothing has done what it can.
LEMMA HeadIsDelete ==
    ASSUME NEW t \in Tables, NEW r \in MethodCalls, r.op = "delete", r.strict,
           NEW h, h = [r EXCEPT !.op = "head"], NEW b
    PROVE  \/ Effect(t, h, b).answer = OK
           \/ /\ Effect(t, h, b) = Effect(t, r, b)
              /\ Effect(t, r, b).answer \in {"not_found", "closed"}
              /\ Effect(t, r, b).value = Nothing
<1>1. h.op = "head" /\ h.key = r.key
  BY DEF MethodCalls
<1>2. CASE t.closed
  BY <1>1, <1>2 DEF Effect, Failed, Answered
<1>3. CASE ~t.closed /\ t.objects[r.key].here
  BY <1>1, <1>3 DEF Effect, GetObject, Answered
<1>4. CASE ~t.closed /\ ~t.objects[r.key].here
  BY <1>1, <1>4 DEF Effect, GetObject, DeleteObject, Failed, Answered
<1> QED BY <1>2, <1>3, <1>4

LEMMA MethodMaps ==
    ASSUME Inv, NEW p \in Procs, Section(p) \/ ReadEnds(p) \/ ReadFails(p)
    PROVE  Atomic!Next \/ UNCHANGED Atomic!vars
<1>1. CASE Section(p)
  <2> DEFINE e == Effect(tables, Method(p), Empty)
  <2>1. phase[p] = "calling" /\ MethodReturns(p, e)
    BY <1>1 DEF Section
  <2>2. e.answer \in {OK, "not_found", "closed"}
    BY <2>1, MethodTyped, Basics, EffectFits DEF Inv, TypeOK, Fits
  <2>3. Content(req[p], "empty") = Empty /\ "empty" \in Rests
    BY DEF Content, Rests
  <2>4. CASE stage[p] = "run"
    <3>1. e = Effect(tables, req[p], Content(req[p], "empty"))
      BY <2>1, <2>3, <2>4, MethodTyped
    <3> HIDE DEF e
    <3>2. Atomic!Next
      BY <2>1, <2>2, <2>3, <2>4, <3>1, EffectMaps
    <3> QED BY <3>2
  <2>5. CASE stage[p] = "check"
    <3>1. req[p] \in MethodCalls /\ req[p].op = "delete" /\ req[p].strict
          /\ Method(p) = [req[p] EXCEPT !.op = "head"]
      BY <2>1, <2>5, MethodTyped DEF Inv, Control, Method
    <3>2. e.tables = tables
      BY <2>1, <2>5, MethodTyped, HeadChangesNothing
    <3>3. \/ e.answer = OK
          \/ /\ e = Effect(tables, req[p], Content(req[p], "empty"))
             /\ e.answer # OK /\ e.value = Nothing
      BY <2>3, <3>1, HeadIsDelete DEF Inv, TypeOK, OK
    <3> HIDE DEF e
    <3>4. CASE e.answer = OK
      BY <2>1, <2>5, <3>2, <3>4, UndecidedMaps
    <3>5. CASE e.answer # OK
      <4>1. Atomic!Next
        BY <2>1, <2>2, <2>3, <2>5, <3>3, <3>5, EffectMaps
      <4> QED BY <4>1
    <3> QED BY <3>4, <3>5
  <2> QED BY <2>1, <2>4, <2>5, MethodTyped
<1>2. ASSUME holder = p
      PROVE  /\ phase[p] = "calling" /\ stage[p] = "run"
             /\ req[p] \in MethodCalls /\ rest[p] \in Rests
             /\ req[p].op = "initiate" => tables.seq < MaxUploads
  <2>1. phase[p] = "calling" /\ ReadsBody(req[p]) /\ rest[p] \in Rests
    BY <1>2, MemoryAssumption DEF Inv, TypeOK
  <2>2. stage[p] # "check"
    BY <2>1 DEF Inv, Control, ReadsBody
  <2> QED BY <2>1, <2>2, MethodTyped
<1>3. CASE ReadEnds(p)
  <2> DEFINE e == Effect(tables, req[p], Content(req[p], rest[p]))
  <2>1. holder = p /\ MethodReturns(p, e)
    BY <1>3 DEF ReadEnds
  <2>2. e.answer \in {OK, "not_found", "closed"}
    BY <1>2, <2>1, ContentTyped, EffectFits DEF Inv, TypeOK, Fits
  <2>3. Atomic!Next
    BY <1>2, <2>1, <2>2, EffectMaps
  <2> QED BY <2>3
<1>4. CASE ReadFails(p)
  <2> DEFINE e == Failed(tables, "unavailable")
  <2>1. holder = p /\ MethodReturns(p, e)
    BY <1>4 DEF ReadFails
  <2>2. e.tables = tables /\ IsRetryable(e.answer)
    BY DEF Failed, Answered, IsRetryable
  <2> HIDE DEF e
  <2> QED BY <1>2, <2>1, <2>2, UndecidedMaps
<1> QED BY <1>1, <1>3, <1>4

LEMMA ReturnMaps ==
    ASSUME Inv, NEW p \in Procs, NEW k, Ends(p), result' = [result EXCEPT ![p] = k],
           \A q \in Procs : q # p => phase'[q] = phase[q] /\ tries'[q] = tries[q]
                                     /\ last'[q] = last[q],
           phase'[p] = "idle"
    PROVE  Atomic!Returns(p, k)
<1>1. /\ stage' = [stage EXCEPT ![p] = "free"] /\ req' = [req EXCEPT ![p] = NoRequest]
      /\ value' = [value EXCEPT ![p] = Nothing]
  BY DEF Ends
<1>2. \A q \in Procs : q # p => Same(q)
  BY <1>1 DEF Same, Inv, TypeOK
<1>3. stage'[p] = "free" /\ result'[p] = k /\ ~Decided(p)' /\ CallOf(p)' = "none"
  BY <1>1 DEF Inv, TypeOK, Decided, CallOf
<1> QED BY <1>2, <1>3, OneMoves, SameNames DEF Atomic!Returns

LEMMA FinishMaps ==
    ASSUME Inv, NEW p \in Procs, NEW k \in {last[p], "canceled", "unavailable"},
           Finish(p, k) \/ FinishCheck(p, k)
    PROVE  Atomic!Next \/ UNCHANGED Atomic!vars
<1>1. /\ phase[p] = "ready" /\ stage[p] \in {"check", "run"} /\ Run!MayReturn(p, k)
      /\ UNCHANGED <<tables, closed>>
  BY DEF Finish, FinishCheck, Run!Finish
<1>2. /\ Run!Final(p) <=> tries[p] > 0 /\ (~IsRetryable(last[p]) \/ tries[p] = MaxAttempts)
      /\ \/ Run!Final(p) /\ k = last[p]
         \/ ~Run!Final(p) /\ k = "canceled"
         \/ tries[p] = 0 /\ k = "unavailable"
  BY <1>1 DEF Run!MayReturn, Run!Final, Run!IsRetryable, IsRetryable
<1>3. CASE Run!Finish(p, k) /\ Ends(p) /\ (stage[p] = "check" => k # OK)
  <2>1. Atomic!Returns(p, k)
    BY <1>3, ReturnMaps DEF Run!Finish, Run!Leave, Inv, TypeOK
  <2>2. CASE Decided(p)
    <3>1. k = last[p]
      BY <1>2, <2>2 DEF Decided
    <3>2. CallSeen[p] = "done" /\ OutcomeSeen[p].answer = k
      BY <1>1, <2>2, <3>1 DEF CallSeen, OutcomeSeen, CallOf
    <3>3. Atomic!Return(p)
      BY <1>1, <2>1, <3>2 DEF Atomic!Return
    <3> QED BY <3>3 DEF Atomic!Next
  <2>3. CASE ~Decided(p)
    <3>1. CallSeen[p] = "pending"
      BY <1>1, <2>3 DEF CallSeen, CallOf
    <3>2. k \in {"canceled", "unavailable"}
      BY <1>1, <1>2, <1>3, <2>3 DEF Decided, Inv, Control
    <3>3. Atomic!GiveUp(p, k)
      BY <1>1, <2>1, <3>1 DEF Atomic!GiveUp
    <3> QED BY <3>2, <3>3 DEF Atomic!Next
  <2> QED BY <2>2, <2>3
<1>4. CASE stage[p] = "check" /\ k = OK /\ FinishCheck(p, k)
  <2>1. /\ tries' = [tries EXCEPT ![p] = 0] /\ last' = [last EXCEPT ![p] = "none"]
        /\ stage' = [stage EXCEPT ![p] = "run"]
        /\ UNCHANGED <<phase, result, req, value>>
    BY <1>4 DEF FinishCheck
  <2>2. \A q \in Procs : q # p => Same(q)
    BY <2>1 DEF Same, Inv, TypeOK
  <2>3. ~Decided(p) /\ ~Decided(p)'
    BY <1>2, <1>4, <2>1 DEF Decided, Inv, TypeOK, OK
  <2>4. stage'[p] = "run" /\ req'[p] = req[p] /\ CallOf(p)' = CallOf(p)
    BY <1>4, <2>1, <2>3 DEF CallOf, Inv, TypeOK
  <2> QED BY <1>1, <2>2, <2>3, <2>4, NothingSeen
<1> QED BY <1>3, <1>4 DEF Finish, FinishCheck

LEMMA LifecycleMaps ==
    ASSUME Inv, NEW p \in Procs,
           CloseAdapter(p) \/ \E k \in {OK, "closed"} \cup Faults : Report(p, k)
    PROVE  Atomic!Next
<1>1. CASE CloseAdapter(p)
  <2>1. Atomic!Returns(p, OK)
    BY <1>1, ReturnMaps DEF CloseAdapter, Inv, Control
  <2>2. CallSeen[p] = "closing"
    BY <1>1 DEF CloseAdapter, CallSeen, CallOf
  <2>3. tables' = Cleared(tables) /\ closed' = closed
    BY <1>1 DEF CloseAdapter
  <2>4. Atomic!CloseReturns(p)
    BY <2>1, <2>2, <2>3, SameNames DEF Atomic!CloseReturns
  <2> QED BY <2>4 DEF Atomic!Next
<1>2. ASSUME NEW k \in {OK, "closed"} \cup Faults, Report(p, k)
      PROVE  Atomic!Next
  <2>1. Atomic!Returns(p, k)
    BY <1>2, ReturnMaps DEF Report, Inv, Control
  <2>2. CallSeen[p] = "probing"
    BY <1>2 DEF Report, CallSeen, CallOf
  <2>3. tables' = tables /\ closed' = closed
        /\ IF tables.closed THEN k = "closed" ELSE k \in {OK} \cup Faults
    BY <1>2 DEF Report
  <2>4. Atomic!Report(p, k)
    BY <2>1, <2>2, <2>3, SameNames DEF Atomic!Report
  <2> QED BY <2>4, SameNames DEF Atomic!Next
<1> QED BY <1>1, <1>2

\* With its attempts, its readers, Delete's head, Health and Close, every call on a
\* Store over the in-memory adapter takes effect at one moment or not at all.
THEOREM Refinement == Spec => ImplementsAtomicStore
<1>1. Init => Atomic!Init
  <2> SUFFICES ASSUME Init PROVE Atomic!Init
    OBVIOUS
  <2>1. /\ CallSeen = [q \in Procs |-> "none"]
        /\ RequestSeen = [q \in Procs |-> NoRequest]
        /\ OutcomeSeen = [q \in Procs |-> [answer |-> "none", value |-> Nothing]]
        /\ ResultSeen = [q \in Procs |-> "none"]
    BY DEF Init, Run!Init, CallSeen, CallOf, RequestSeen, OutcomeSeen, ResultSeen, Decided
  <2>2. tables = Atomic!NewTables
    BY DEF Init, Atomic!NewTables, NewTables, Atomic!Absent, Absent, Atomic!NoUpload,
           NoUpload, Atomic!Empty, Empty
  <2> QED BY <2>1, <2>2, SameNames DEF Init, Atomic!Init
<1>2. Inv /\ [Next]_vars => [Atomic!Next]_Atomic!vars
  <2> SUFFICES ASSUME Inv, [Next]_vars PROVE Atomic!Next \/ UNCHANGED Atomic!vars
    OBVIOUS
  <2>1. CASE UNCHANGED vars
    BY <2>1 DEF vars, runVars, callVars, Atomic!vars, CallSeen, RequestSeen, OutcomeSeen,
                ResultSeen, CallOf, Decided
  <2>2. ASSUME NEW p \in Procs, NEW r \in work, Begin(p, r) \/ TurnAway(p, r)
        PROVE  Atomic!Next
    BY <2>2, BeginMaps, TurnAwayMaps
  <2>3. ASSUME NEW p \in Procs, CtxEnds(p) \/ Enter(p) \/ Proceed(p)
        PROVE  Atomic!Next \/ UNCHANGED Atomic!vars
    BY <2>3, SmallStepMaps, MethodMaps, LifecycleMaps, FinishMaps DEF Enter, Proceed
  <2> QED BY <2>1, <2>2, <2>3 DEF Next
<1> QED BY Invariance, <1>1, <1>2, PTL DEF Spec, ImplementsAtomicStore, Atomic!Spec
=============================================================================
