------------------------------ MODULE MCBackend -----------------------------
(***************************************************************************)
(* Small instances of the OpenDAL backend: seeds and request sets.         *)
(***************************************************************************)
EXTENDS BackendRefinesMem, TLC

f == <<"a">>
g == <<"b">>
c == <<"c">>
d == <<"d">>
e == <<"e">>
dx == <<"d", "x">>
ds == <<"d", "s">>
ex == <<"e", "x">>

Store2(k1, v1, k2, v2) == [k \in {k1, k2} |-> IF k = k1 THEN v1 ELSE v2]

(* A file at the root and a directory that exists only through its file. *)
SeedTree == {Store2(FileKey(f), <<1>>, FileKey(dx), <<2>>)}

(* Every operation of the trait.  No directory that is renamed has a       *)
(* marker of its own, and no name is a file in d and a directory in e.     *)
EveryRequest ==
    {ListReq(Root), ListReq(ds), StatReq(d), ReadReq(f, 1, 2),
     CreateReq(d, "file"), CreateReq(ds, "dir"),
     WriteReq(d, 0, <<1>>), WriteReq(dx, 0, <<2>>), WriteReq(f, 1, <<1>>), TruncateReq(f, 1),
     RemoveReq(dx, "file"), RemoveReq(ds, "dir"), RemoveReq(d, "dir"),
     RenameReq(f, g), RenameReq(d, e)}

SeedDir ==
    {Store2(FileKey(dx), <<1>>, DirKey(ds), <<>>), Store2(FileKey(dx), <<1>>, FileKey(ex), <<2>>),
     Store2(FileKey(f), <<1>>, DirKey(c), <<>>)}

FaultRequests ==
    {RenameReq(d, e), RenameReq(f, g), CreateReq(f, "file"), CreateReq(ds, "dir"),
     WriteReq(c, 0, <<2>>), TruncateReq(f, 0), RemoveReq(ds, "dir"), ReadReq(f, 0, 1)}

SeedFiles == {Store2(FileKey(f), <<1>>, FileKey(g), <<2>>)}

(* Two files, and an empty directory that has a marker. *)
SeedTwo == {Put(Store2(FileKey(dx), <<1>>, FileKey(<<"d", "y">>), <<2>>), DirKey(e), <<>>)}

(* Renames whose sources overlap and whose targets differ, and the removal *)
(* of a directory one of them empties and of one it fills.                 *)
RacingRenames ==
    {RenameReq(d, e), RenameReq(d, g), RenameReq(dx, f), RenameReq(e, c),
     RemoveReq(d, "dir"), RemoveReq(e, "dir")}

(* Where the bytes of a file below d can be, one step further each time;   *)
(* these renames and removals take them nowhere else and never back.       *)
Homes == [b \in {<<1>>, <<2>>} |->
    IF b = <<1>> THEN {FileKey(p) : p \in {dx, ex, <<"b", "x">>, <<"c", "x">>, f}}
    ELSE {FileKey(p) : p \in {<<"d", "y">>, <<"e", "y">>, <<"b", "y">>, <<"c", "y">>}}]

Rank(k) == CASE k.path[1] = "d" -> 0 [] k.path[1] = "e" -> 1 [] OTHER -> 2

ASSUME RacingRenamesMoveOn ==
    Request = RacingRenames /\ Seed = SeedTwo =>
        \A b \in {<<1>>, <<2>>} : Onward(Homes[b], [k \in Homes[b] |-> Rank(k)], b)

TwoWrites == {WriteReq(f, 0, <<2>>), WriteReq(f, 1, <<2>>)}

Symmetry == Permutations(Task)
=============================================================================
