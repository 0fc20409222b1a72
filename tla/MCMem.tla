-------------------------------- MODULE MCMem -------------------------------
(***************************************************************************)
(* A small instance of the in-memory backend.  Parents exist and renames   *)
(* go to a name that nothing, or something of the same kind, has; but for  *)
(* one write below a file, which the kernel never asks for and the backend *)
(* does not refuse: the file is then a directory too.                      *)
(***************************************************************************)
EXTENDS MemStore

f == <<"a">>
d == <<"d">>
e == <<"e">>
dx == <<"d", "x">>
ds == <<"d", "s">>
fx == <<"a", "x">>

MCSeed ==
    {[k \in {FileKey(f), FileKey(dx)} |-> IF k.path = f THEN <<1>> ELSE <<2>>],
     [k \in {DirKey(d)} |-> <<>>]}

MCRequest ==
    {ListReq(Root), ListReq(d), ListReq(f), StatReq(d), StatReq(ds), ReadReq(f, 1, 2), ReadReq(d, 0, 1),
     CreateReq(d, "dir"), CreateReq(ds, "dir"), CreateReq(ds, "file"), CreateReq(f, "file"),
     WriteReq(f, 0, <<2>>), WriteReq(f, 2, <<1>>), WriteReq(d, 0, <<1>>),
     WriteReq(fx, 0, <<1>>), TruncateReq(f, 1),
     RemoveReq(ds, "dir"), RemoveReq(dx, "file"), RemoveReq(d, "dir"),
     RenameReq(d, e), RenameReq(dx, f)}
=============================================================================
