----------------------------- MODULE ObjectKeys -----------------------------
(***************************************************************************)
(* What object.go accepts as a key and as metadata.  A key is a sequence   *)
(* of characters, and "?" stands for bytes that are no UTF-8; metadata  *)
(* maps names to the lengths of their values.                              *)
(***************************************************************************)
EXTENDS Integers, Sequences, FiniteSets, SequencesExt

CONSTANTS MaxKeyLength,         \* 1024
          MaxMetadataKeys, MaxMetadataValueLen

\* One more character: it ends the last segment or belongs to it.
Extended(segments, char) ==
    IF char = "/" THEN Append(segments, <<>>)
                  ELSE [segments EXCEPT ![Len(segments)] = Append(@, char)]

\* strings.Split(key, "/").
Segments(key) ==
    LET upTo[n \in 0..Len(key)] ==
            IF n = 0 THEN << <<>> >> ELSE Extended(upTo[n - 1], key[n])
    IN  upTo[Len(key)]

Here == <<".">>
Up == <<".", ".">>

\* Mutant: only the segments that leave a directory are refused.
ValidKeyUpOnly(key) ==
    /\ key # <<>> /\ Len(key) <= MaxKeyLength
    /\ "?" \notin Range(key)
    /\ key[1] # "/"
    /\ \A n \in DOMAIN Segments(key) : Segments(key)[n] # Up

\* NewKey.
ValidKey(key) ==
    /\ key # <<>> /\ Len(key) <= MaxKeyLength
    /\ "?" \notin Range(key)
    /\ key[1] # "/"
    /\ \A n \in DOMAIN Segments(key) : Segments(key)[n] \notin {<<>>, Here, Up}

\* validateMetadata.
ValidMetadata(md) ==
    /\ Cardinality(DOMAIN md) <= MaxMetadataKeys
    /\ "" \notin DOMAIN md
    /\ \A name \in DOMAIN md : md[name] <= MaxMetadataValueLen

\* Where a path leads: the definition that NewKey is held against.
Entered(at, seg) == CASE seg \in {<<>>, Here} -> at
                      [] seg = Up -> SubSeq(at, 1, Len(at) - 1)
                      [] OTHER -> Append(at, seg)

Followed(segments) ==
    LET at[n \in 0..Len(segments)] ==
            IF n = 0 THEN <<>> ELSE Entered(at[n - 1], segments[n])
    IN  at[Len(segments)]

Walk(key) == Followed(Segments(key))
=============================================================================
