----------------------------- MODULE Enumeration ----------------------------
(***************************************************************************)
(* ext/src/volume.rs, enumerate: one call packs the entries of a listing   *)
(* from the caller's cookie on until its buffer is full; the entries macOS *)
(* litters a volume with (ext/src/junk.rs) are passed over.                *)
(***************************************************************************)
EXTENDS Naturals, Sequences, FiniteSets

EntrySeqs == INSTANCE SequencesExt

CONSTANT HiddenExact     \* the names of HIDDEN_EXACT

(* A name is the sequence of its pieces, "._" being one. *)
IsHidden(name) == name[1] = "._" \/ name \in HiddenExact

Visible(entries) ==
    EntrySeqs!FoldLeft(LAMBDA seen, name : IF IsHidden(name) THEN seen ELSE Append(seen, name), <<>>, entries)

(* The elements at these positions, in order. *)
InOrder(seq, S) ==
    [n \in 1..Cardinality(S) |-> seq[CHOOSE i \in S : Cardinality(S \cap (1..i)) = n]]

MutantFrom(entries, cookie) ==                 \* the cookie is taken for an index among the visible
    {i \in DOMAIN entries :
        ~IsHidden(entries[i]) /\ Len(Visible(SubSeq(entries, 1, i))) > cookie}

(* The positions of the entries a call with this cookie may pack. *)
From(entries, cookie) == {i \in DOMAIN entries : i > cookie /\ ~IsHidden(entries[i])}

(* A page: what packEntry takes, until it refuses one more; and the cookie *)
(* of the last entry packed, from which the caller goes on.  Positions     *)
(* count from 1 and cookies from 0: i + 1 is the position itself.          *)
Page(entries, cookie, room) ==
    LET due == From(entries, cookie)
        packed == {i \in due : Cardinality(due \cap (1..i)) <= room}
    IN  [names |-> InOrder(entries, packed),
         full |-> packed # due,
         next |-> IF packed = {} THEN cookie ELSE CHOOSE i \in packed : \A j \in packed : j <= i]
=============================================================================
