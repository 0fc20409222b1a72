-------------------------------- MODULE Path --------------------------------
(***************************************************************************)
(* core/src/path.rs: canonical paths and object keys.                      *)
(*                                                                         *)
(* A canonical path is the sequence of its components, the root being the  *)
(* empty sequence: "/a/b" is <<"a", "b">>.  An object key is a path and    *)
(* whether the key ends in a slash: "a/b" is [path |-> <<"a", "b">>,       *)
(* dir |-> FALSE] and the directory marker "a/b/" has dir |-> TRUE.        *)
(***************************************************************************)
EXTENDS Naturals, Sequences

Seqs == INSTANCE SequencesExt

CONSTANT Name        \* the ordinary path components

ASSUME NameAssumption == Name \cap {"", ".", ".."} = {}

Root == <<>>

PathSet == Seq(Name)

Key == [path : PathSet \ {Root}, dir : BOOLEAN]

-----------------------------------------------------------------------------
(* path::normalize over the components between the slashes of a raw path.  *)

MutantCollapseKeepsLeadingDots(out, comp) ==   \* a ".." at the root is kept
    CASE comp \in {"", "."} -> out
      [] comp = ".." /\ out # Root -> Seqs!Front(out)
      [] OTHER -> Append(out, comp)

MutantCollapseClears(out, comp) ==             \* ".." drops every component
    CASE comp \in {"", "."} -> out
      [] comp = ".." -> Root
      [] OTHER -> Append(out, comp)

Collapse(out, comp) ==
    CASE comp \in {"", "."} -> out
      [] comp = ".."        -> IF out = Root THEN Root ELSE Seqs!Front(out)
      [] OTHER              -> Append(out, comp)

Normalize(raw) == Seqs!FoldLeft(Collapse, Root, raw)

(* path::basename and path::parent, and the volume's join. *)
Basename(p) == IF p = Root THEN "" ELSE p[Len(p)]

MutantParentFirst(p) == IF p = Root THEN Root ELSE SubSeq(p, 1, 1)    \* split_once for rsplit_once

Parent(p) == IF p = Root THEN Root ELSE SubSeq(p, 1, Len(p) - 1)

Join(d, name) == Append(d, name)

-----------------------------------------------------------------------------
(* path::to_key and the uses the backends make of it. *)

FileKey(p) == [path |-> p, dir |-> FALSE]

DirKey(p) == [path |-> p, dir |-> TRUE]

(* key.starts_with(to_key(p, true)): the marker of p itself, or anything   *)
(* below p.  The root's prefix is the empty string, which starts every key.*)
StartsWith(k, p) ==
    /\ Seqs!IsPrefix(p, k.path)
    /\ k.path = p => k.dir

(* A key strictly below p: the marker of p itself does not count. *)
Below(k, p) == StartsWith(k, p) /\ k # DirKey(p)

MutantRekeyOffByOne(k, from, to) ==            \* keeps from's last component
    [k EXCEPT !.path = to \o SubSeq(k.path, Len(from), Len(k.path))]

(* format!("{to_dir}{suffix}") for the key from_dir + suffix, and the file *)
(* key of `to` for the file key of `from`.                                 *)
Rekey(k, from, to) ==
    [k EXCEPT !.path = to \o SubSeq(k.path, Len(from) + 1, Len(k.path))]

(* One path is the other, or an ancestor of it. *)
Related(p, q) == Seqs!IsPrefix(p, q) \/ Seqs!IsPrefix(q, p)
=============================================================================
