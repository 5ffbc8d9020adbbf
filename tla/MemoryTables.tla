---------------------------- MODULE MemoryTables ----------------------------
(***************************************************************************)
(* What the methods of the in-memory adapter (inmemory.go) do to its       *)
(* tables: one operator per method, the body of its critical section, as a *)
(* function of the tables t, the call r and, where the method reads one,   *)
(* the content b of the caller's reader.                                   *)
(*                                                                         *)
(* A content is what it was made from and how much of it is there; a       *)
(* checksum is the set of the content it was computed from, {} for none.   *)
(* Content types, metadata, tags and times are copied along and left out.  *)
(***************************************************************************)
EXTENDS OssErrors, Naturals

CONSTANTS Keys, Data, PartNumbers,
          MaxUploads   \* bound on the uploads initiated

Rests == {"whole", "tail", "empty"}
Empty == <<"none", "empty">>

\* What is left of the reader of call r.
Content(r, rest) == IF rest = "empty" THEN Empty ELSE <<r.data, rest>>
Contents == {Empty} \cup (Data \X {"whole", "tail"})

Absent == [here |-> FALSE, body |-> Empty, sums |-> {}]
Stored(b, s) == [here |-> TRUE, body |-> b, sums |-> s]
Objects == {Absent} \cup [here : {TRUE}, body : Contents, sums : SUBSET Contents]

NoUpload == [open |-> FALSE, key |-> "none", parts |-> {}]
Uploads == {NoUpload} \cup [open : {TRUE}, key : Keys, parts : SUBSET (PartNumbers \X Contents)]

Tables == [objects : [Keys -> Objects], uploads : [1..MaxUploads -> Uploads],
           seq : 0..MaxUploads, closed : BOOLEAN]

NewTables == [objects |-> [k \in Keys |-> Absent],
              uploads |-> [i \in 1..MaxUploads |-> NoUpload],
              seq |-> 0, closed |-> FALSE]

\* What a method returns besides its error.
Values == [object : Objects, id : 0..MaxUploads, parts : SUBSET (PartNumbers \X Contents)]
Nothing == [object |-> Absent, id |-> 0, parts |-> {}]

Answered(k, t, v) == [answer |-> k, tables |-> t, value |-> v]
Failed(t, k) == Answered(k, t, Nothing)

-----------------------------------------------------------------------------
(* Mutants: inmemory.go with a plausible mistake.                          *)

\* The checksum of what the caller meant to send.
PutObjectAsMeant(t, r, b) ==
    LET obj == Stored(b, IF r.summed THEN {<<r.data, "whole">>} ELSE {})
    IN  Answered(OK, [t EXCEPT !.objects[r.key] = obj], [Nothing EXCEPT !.object = obj])

-----------------------------------------------------------------------------

PutObject(t, r, b) ==
    LET obj == Stored(b, IF r.summed THEN {b} ELSE {})
    IN  Answered(OK, [t EXCEPT !.objects[r.key] = obj], [Nothing EXCEPT !.object = obj])

\* GetObject and HeadObject.
GetObject(t, r) ==
    IF ~t.objects[r.key].here THEN Failed(t, "not_found")
    ELSE Answered(OK, t, [Nothing EXCEPT !.object = t.objects[r.key]])

DeleteObject(t, r) ==
    IF t.objects[r.key].here THEN Failed([t EXCEPT !.objects[r.key] = Absent], OK)
    ELSE Failed(t, IF r.strict THEN "not_found" ELSE OK)

CopyObject(t, r) ==
    LET src == t.objects[r.key]
    IN  IF ~src.here THEN Failed(t, "not_found")
        ELSE Answered(OK, [t EXCEPT !.objects[r.target] = src], [Nothing EXCEPT !.object = src])

InitiateMultipart(t, r) ==
    LET id == t.seq + 1
    IN  Answered(OK, [t EXCEPT !.seq = id,
                               !.uploads[id] = [open |-> TRUE, key |-> r.key, parts |-> {}]],
                 [Nothing EXCEPT !.id = id])

Known(t, r) == r.id \in DOMAIN t.uploads /\ t.uploads[r.id].open

\* A part staged again replaces the one before.
UploadPart(t, r, b) ==
    LET others == {q \in t.uploads[r.id].parts : q[1] # r.part}
    IN  Answered(OK, [t EXCEPT !.uploads[r.id].parts = others \cup {<<r.part, b>>}],
                 [Nothing EXCEPT !.parts = {<<r.part, b>>}])

ListParts(t, r) ==
    IF ~Known(t, r) THEN Failed(t, "not_found")
    ELSE Answered(OK, t, [Nothing EXCEPT !.parts = t.uploads[r.id].parts])

\* The body that is published is a buffer nothing was written to; there is no
\* checksum.
CompleteMultipart(t, r) ==
    LET obj == Stored(Empty, {})
    IN  IF ~Known(t, r) THEN Failed(t, "not_found")
        ELSE Answered(OK, [t EXCEPT !.objects[t.uploads[r.id].key] = obj,
                                    !.uploads[r.id] = NoUpload],
                      [Nothing EXCEPT !.object = obj])

AbortMultipart(t, r) ==
    Failed(IF Known(t, r) THEN [t EXCEPT !.uploads[r.id] = NoUpload] ELSE t, OK)

\* Close: objects and uploads become nil.
Cleared(t) == [NewTables EXCEPT !.seq = t.seq, !.closed = TRUE]

ReadsBody(r) == r.op \in {"put", "upload"}

\* Every method begins with the closed test.
Effect(t, r, b) ==
    IF t.closed THEN Failed(t, IF r.op = "abort" THEN OK ELSE "closed")
    ELSE CASE r.op = "put" -> PutObject(t, r, b)
           [] r.op \in {"get", "head"} -> GetObject(t, r)
           [] r.op = "delete" -> DeleteObject(t, r)
           [] r.op = "copy" -> CopyObject(t, r)
           [] r.op = "initiate" -> InitiateMultipart(t, r)
           [] r.op = "upload" -> IF Known(t, r) THEN UploadPart(t, r, b)
                                                ELSE Failed(t, "not_found")
           [] r.op = "list" -> ListParts(t, r)
           [] r.op = "complete" -> CompleteMultipart(t, r)
           [] r.op = "abort" -> AbortMultipart(t, r)
=============================================================================
