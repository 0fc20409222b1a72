--------------------------- MODULE MCConversions ----------------------------
(***************************************************************************)
(* The pure conversions on every small input, grown one piece at a time: a *)
(* raw path, a connection's form, the text around the probe's answer, a    *)
(* directory listing, what FSKit knows of the extension.                   *)
(***************************************************************************)
EXTENDS Path, Handover, Enumeration, Health, FiniteSets

CONSTANTS MaxComponents, \* bound on the components of a raw path
          MaxTyped,      \* bound on the symbols typed into a form
          MaxOutput,     \* bound on what mount prints around the probe's answer
          MaxEntries,    \* bound on the entries of a listing
          MaxModules     \* bound on the modules FSKit lists

VARIABLE input

(* What stands between the slashes of a raw path. *)
Component == Name \cup {"", ".", ".."}

(* Words of a form; "bucket" is a key of the source path as well. *)
Typed == {"w", "bucket", "on", "(", Blank, ","} \cup Delimiter

HiddenNames == {<<".DS_Store">>}

EntryNames == {<<"a">>, <<"._", "a">>, <<"a", "._">>, <<".DS_Store">>}

Shas == {NoSha, "", "unknown", "s1", "s2-dirty"}

Modules == [ours : BOOLEAN, enabled : BOOLEAN, sha : Shas]

BlankForm ==
    [name |-> <<"n">>, mount_point |-> <<"/", "w", Blank, "on">>, bucket |-> <<"w">>, region |-> <<"w">>,
     endpoint |-> <<>>, access_key_id |-> <<"w">>, session_token |-> <<>>, secret |-> <<"w">>]

Forms ==
    {[k \in TextFields \cup {"is_s3", "save_secret_to_keychain"} |->
        CASE k = "is_s3" -> s3 [] k = "save_secret_to_keychain" -> saved [] OTHER -> BlankForm[k]] :
     s3 \in BOOLEAN, saved \in BOOLEAN}

Init ==
    \/ input = [kind |-> "path", raw |-> <<>>]
    \/ input \in [kind : {"form"}, form : Forms, typed : {0}]
    \/ input = [kind |-> "probe", before |-> <<>>, after |-> <<>>]
    \/ input = [kind |-> "listing", entries |-> <<>>]
    \/ input \in [kind : {"health"}, answered : BOOLEAN, modules : {<<>>}, running : Shas, host : Shas]

AddComponent ==
    /\ input.kind = "path" /\ Len(input.raw) < MaxComponents
    /\ \E c \in Component : input' = [input EXCEPT !.raw = Append(@, c)]

TypeIn ==
    /\ input.kind = "form" /\ input.typed < MaxTyped
    /\ \E k \in TextFields : \E c \in Typed \cup (IF k = "endpoint" THEN Scheme ELSE {}) :
           input' = [input EXCEPT !.form[k] = Append(@, c), !.typed = @ + 1]

(* mount's own words before the message hold neither key; what follows is  *)
(* set off by white space.                                                 *)
AddOutput ==
    /\ input.kind = "probe" /\ Len(input.before) + Len(input.after) < MaxOutput
    /\ \/ \E c \in {"w", Blank} : input' = [input EXCEPT !.before = Append(@, c)]
       \/ \E c \in {"w", Blank, "version=", "sha="} :
              /\ input.after = <<>> => c = Blank
              /\ input' = [input EXCEPT !.after = Append(@, c)]

AddEntry ==
    /\ input.kind = "listing" /\ Len(input.entries) < MaxEntries
    /\ \E name \in EntryNames : input' = [input EXCEPT !.entries = Append(@, name)]

AddModule ==
    /\ input.kind = "health" /\ input.answered /\ Len(input.modules) < MaxModules
    /\ \E m \in Modules : input' = [input EXCEPT !.modules = Append(@, m)]

Next == AddComponent \/ TypeIn \/ AddOutput \/ AddEntry \/ AddModule

Spec == Init /\ [][Next]_input

-----------------------------------------------------------------------------
(* Paths. *)

raw == IF input.kind = "path" THEN input.raw ELSE <<>>

(* How many components of raw[i..j] satisfy the test. *)
Count(i, j, S) == Cardinality({k \in i..j : raw[k] \in S})

(* The reference: a name survives unless, somewhere after it, the ".."s    *)
(* have outnumbered the names that came after it.                          *)
Survives(i) ==
    /\ raw[i] \in Name
    /\ \A j \in (i + 1)..Len(raw) :
           Count(i + 1, j, {".."}) <= Count(i + 1, j, Name)

Kept == {i \in 1..Len(raw) : Survives(i)}

(* path::normalize removes each name a later ".." cancels, clamps at the   *)
(* root, and keeps the others in order.                                    *)
NormalizeIsReference == Normalize(raw) = InOrder(raw, Kept)

(* basename and parent take apart what join puts together, for every       *)
(* canonical path but the root.                                            *)
ParentAndBasename ==
    LET p == Normalize(raw)
    IN  /\ p # Root => Join(Parent(p), Basename(p)) = p
        /\ p = Root => Parent(p) = Root /\ Basename(p) = ""

(* Re-keying under a renamed directory is undone by renaming back, and     *)
(* never turns a key below the directory into one outside the target.      *)
RekeyInverts ==
    LET p == Normalize(raw)
    IN  \A i \in 1..Len(p), d \in BOOLEAN, n \in Name :
            LET k == [path |-> p, dir |-> d]
                from == SubSeq(p, 1, i)
                to == <<n>>
            IN  StartsWith(k, from) => /\ StartsWith(Rekey(k, from, to), to)
                                       /\ Rekey(Rekey(k, from, to), to, from) = k


-----------------------------------------------------------------------------
(* The hand-over. *)

TestedForm == input.kind = "form" /\ Accepts(input.form)

(* What is served of the form when the extension can (signed) or cannot    *)
(* read the Keychain; the application passes the secret either way.        *)
Served(form, signed) ==
    Serve(SourcePath(Config(form)), <<<<"-o">>, Options(form.secret)>>,
          IF signed /\ form.save_secret_to_keychain THEN {form.secret} ELSE {})

(* Every form from_form accepts is served as it was meant: the extension   *)
(* finds in the source path the type, the name and every field the form    *)
(* had, and nothing else, so no field can leak into another one.           *)
ConfigArrives ==
    TestedForm => \A signed \in BOOLEAN :
        LET served == Served(input.form, signed)
        IN  served.outcome = "ready" /\ served.config = Config(input.form)

(* The secret arrives whole by one of its two ways: "in every non-Keychain *)
(* case it must avoid the -o list's comma delimiter" (connection.rs).  A   *)
(* secret with a comma that is saved to a Keychain the extension cannot    *)
(* read is not whole: its way is -o after all.                             *)
SecretArrives ==
    TestedForm /\ input.form.is_s3 => \A signed \in BOOLEAN :
        signed \/ ~input.form.save_secret_to_keychain \/ ~HasAny(input.form.secret, {","})
        => LET served == Served(input.form, signed)
           IN  served.outcome = "ready" /\ served.secret = input.form.secret

(* The row of the mount table of a connection is read back as its folder   *)
(* and its type, whatever the folder is called: unmounting and deleting    *)
(* look for it by that.  A source path with a blank of its own may come    *)
(* apart at its " on ".                                                    *)
MountIsFound ==
    LET point == Trim(input.form.mount_point)
        device == SourcePath(Config(input.form))
        row == ParseRow(Row(device, point))
    IN  TestedForm /\ point # <<>> /\ ~HasAny(device, {Blank})
        => row.mount_point = point /\ row.fs_type = FsType

(* The application reads the running extension's version and commit off    *)
(* the probe whatever mount prints around it: "a stable contract"          *)
(* (ext/src/lib.rs).  An output without it is no answer.                   *)
ProbeIsRead ==
    input.kind = "probe" =>
        LET message == InfoMessage(Info("v", "s"))
        IN  /\ ParseInfo(input.before \o message \o input.after) = Info(<<"v">>, <<"s">>)
            /\ ParseInfo(input.before) = NoInfo

-----------------------------------------------------------------------------
(* Enumeration. *)

(* Page after page, with any room for each, shows every visible entry once *)
(* and in order, and comes to an end.                                      *)
PagesShowEachEntryOnce ==
    input.kind = "listing" =>
        LET es == input.entries
            n == Len(es)
        IN  \A room \in [0..n -> 1..(n + 1)] :
                LET rest[c \in 0..n] ==
                        LET page == Page(es, c, room[c])
                        IN  page.names \o (IF page.full THEN rest[page.next] ELSE <<>>)
                IN  rest[0] = Visible(es)

-----------------------------------------------------------------------------
(* Health. *)

(* The menu bar shows the plain cloud just when mounts can run and nothing *)
(* is known against the build that would serve them: the one that runs,    *)
(* "the probe wins when it yields a real SHA" (health.rs), else the one on *)
(* disk; a build without a commit "doesn't raise a false alarm".           *)
CloudMeansRightBuild ==
    input.kind = "health" =>
        LET ms == input.modules
            differs(sha) == {sha, input.host} \cap {NoSha, "", "unknown"} = {} /\ sha # input.host
            real(sha) == sha \in {"s1", "s2-dirty"}
        IN  BarSymbol(Check(input.answered, ms, input.running, input.host)) = "cloud.fill" <=>
                /\ input.answered
                /\ \E i \in DOMAIN ms :
                      /\ ms[i].ours /\ ms[i].enabled /\ \A j \in 1..(i - 1) : ~ms[j].ours
                      /\ ~differs(IF real(input.running) THEN input.running ELSE ms[i].sha)

TypeOK ==
    CASE input.kind = "path" -> Normalize(input.raw) \in PathSet
      [] input.kind = "form" -> DOMAIN ParseSourcePath(SourcePath(Config(input.form)))
                                \subseteq Seq(Typed \cup Scheme \cup TextFields \cup {"type", "n", "/"})
      [] input.kind = "probe" -> DOMAIN ParseInfo(input.after) \in {{"none"}, {"version", "sha"}}
      [] input.kind = "health" -> BuildReport(input.answered, input.modules, input.host).health
                                  \in {"error", "not_installed", "disabled", "ready"}
      [] input.kind = "listing" -> \A c \in 0..Len(input.entries) : Page(input.entries, c, 1).next \in c..Len(input.entries)

=============================================================================
