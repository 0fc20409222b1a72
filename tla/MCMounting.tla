----------------------------- MODULE MCMounting -----------------------------
(***************************************************************************)
(* Small instances of the connections: the built-in one and one on S3.     *)
(***************************************************************************)
EXTENDS Mounting, TLC

CONSTANTS memory, a, home, s1, s2, cut

S3Form(secret, inKeychain, onDisk, launch, point) ==
    [name |-> a, s3 |-> TRUE, secret |-> secret, keychain |-> inKeychain, disk |-> onDisk,
     launch |-> launch, point |-> point]

(* A secret for the Keychain, one for the disk, and the stored one checked *)
(* but kept nowhere, at the default place.                                 *)
SomeForms ==
    {S3Form(s1, TRUE, FALSE, FALSE, home), S3Form(s1, FALSE, TRUE, TRUE, home),
     S3Form(NoSecret, FALSE, FALSE, TRUE, a)}

(* A second secret that is to be kept on disk only.                        *)
NewSecret == {S3Form(s1, TRUE, FALSE, FALSE, home), S3Form(s2, FALSE, TRUE, FALSE, home)}

Symmetry == Permutations(Task)
=============================================================================
