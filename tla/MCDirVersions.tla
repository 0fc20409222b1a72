--------------------------- MODULE MCDirVersions ----------------------------
(***************************************************************************)
(* Small instances of DirVersions: directory p, which is enumerated, may   *)
(* hold the files a and b, directory q a file a.                           *)
(***************************************************************************)
EXTENDS DirVersions, TLC

CONSTANTS p, q, t1

pa == <<p, "a">>
pb == <<p, "b">>
qa == <<q, "a">>

Entries == {pa, pb, qa}

OneLists == {<<t1, p>>}

AtFirst == {pa, qa}

OnFiles ==
    {Create(pb), Remove(pa), Truncate(pa), Write(pa), RenameFile(pa, pb), RenameFile(qa, pa)}

=============================================================================
