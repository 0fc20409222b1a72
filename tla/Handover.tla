------------------------------ MODULE Handover ------------------------------
(***************************************************************************)
(* How a connection gets from the form to the extension.  The application  *)
(* checks the form and writes it into the source path of mount(8), and the *)
(* secret into its -o list; the extension parses both.  The mount shows up *)
(* as a row of /sbin/mount, in which the application looks for the folder. *)
(*                                                                         *)
(* A text is a sequence of symbols: the delimiters that matter to some     *)
(* parser, and words, which stand for runs of other characters.            *)
(***************************************************************************)
EXTENDS Naturals, Sequences

Texts == INSTANCE SequencesExt

CONSTANTS Identifier,    \* words of letters, digits, '.', '-' and '_'
          Scheme         \* "http://" or "https://"

Blank == " "

(* The delimiters of the source path's query. *)
Delimiter == {"?", "&", "=", "#"}

ASSUME IdentifierAssumption == Identifier \cap (Delimiter \cup {Blank, "/", ","}) = {}

Insert(map, key, value) ==
    [k \in DOMAIN map \cup {key} |-> IF k = key THEN value ELSE map[k]]

EmptyMap == [k \in {} |-> <<>>]

-----------------------------------------------------------------------------
(* str::trim, split, split_once and rsplit_once. *)

Trim(text) ==
    LET ink(c) == c # Blank
        first == Texts!SelectInSeq(text, ink)
    IN  IF first = 0 THEN <<>> ELSE SubSeq(text, first, Texts!SelectLastInSeq(text, ink))

(* Where the text has the pattern. *)
Matches(text, pattern) ==
    {i \in 1..Len(text) : Texts!IsPrefix(pattern, SubSeq(text, i, Len(text)))}

Cut(text, at, pattern) ==
    <<SubSeq(text, 1, at - 1), SubSeq(text, at + Len(pattern), Len(text))>>

SplitOnce(text, pattern) ==
    Cut(text, CHOOSE i \in Matches(text, pattern) : \A j \in Matches(text, pattern) : i <= j, pattern)

RSplitOnce(text, pattern) ==
    Cut(text, CHOOSE i \in Matches(text, pattern) : \A j \in Matches(text, pattern) : i >= j, pattern)

Split(text, c) ==
    Texts!FoldLeft(LAMBDA parts, x : IF x = c THEN Append(parts, <<>>)
                               ELSE [parts EXCEPT ![Len(parts)] = Append(@, x)],
             << <<>> >>, text)

JoinWith(c, parts) ==
    Texts!FoldLeft(LAMBDA text, part : IF text = <<>> THEN part ELSE text \o <<c>> \o part, <<>>, parts)

-----------------------------------------------------------------------------
(* The form and the connection made of it (Connection::from_form). *)

TextFields == {"name", "mount_point", "bucket", "region", "endpoint", "access_key_id",
               "session_token", "secret"}

(* The fields that ride the query of the source path. *)
QueryFields == {"bucket", "access_key_id", "region", "endpoint", "session_token"}

Required == {"bucket", "access_key_id", "region"}

(* External: url::Url parses it, with a host. *)
IsUrl(text) == Len(text) > 1 /\ text[1] \in Scheme /\ text[2] \in Identifier

HasAny(text, chars) == \E i \in DOMAIN text : text[i] \in chars

ValidName(name) == name # <<>> /\ \A i \in DOMAIN name : name[i] \in Identifier

MutantValidQuery(form) == TRUE                 \* the delimiters are not looked for

ValidQuery(form) == \A k \in QueryFields : ~HasAny(Trim(form[k]), Delimiter)

ValidSecret(form) ==
    /\ form.secret # <<>>
    /\ form.save_secret_to_keychain \/ ~HasAny(form.secret, {","})

Accepts(form) ==
    /\ ValidName(Trim(form.name))
    /\ form.is_s3 =>
           /\ \A k \in Required : Trim(form[k]) # <<>>
           /\ Trim(form.endpoint) # <<>> => IsUrl(Trim(form.endpoint))
           /\ ValidQuery(form)
           /\ ValidSecret(form)

(* The configuration the form asks for; only the secret is not trimmed. *)
Config(form) ==
    IF form.is_s3
    THEN [type |-> "s3", name |-> Trim(form.name),
          fields |-> [k \in QueryFields |-> Trim(form[k])]]
    ELSE [type |-> "memory"]

-----------------------------------------------------------------------------
(* Connection::source_path. *)

(* A query field of the source path: `key=value`. *)
Pair(config, k) == <<k, "=">> \o config.fields[k]

(* The optional fields are left out when they are empty. *)
Optional(config, k) == IF config.fields[k] = <<>> THEN <<>> ELSE <<k>>

Query(config) ==
    <<"bucket", "access_key_id">> \o Optional(config, "region") \o Optional(config, "endpoint")
    \o Optional(config, "session_token")

SourcePath(config) ==
    IF config.type = "memory" THEN <<"/", "memory">>
    ELSE <<"/", "s3", "/">> \o config.name \o <<"?">>
         \o JoinWith("&", [i \in DOMAIN Query(config) |-> Pair(config, Query(config)[i])])

(* mount's -o argument (format_options). *)
Options(secret) == <<"secret", "=">> \o secret

-----------------------------------------------------------------------------
(* The extension: parse_source_path, parse_options, build_backend. *)

MutantAddPair(map, part) ==                    \* keys and values are split at the last '='
    IF Matches(part, <<"=">>) = {} THEN map
    ELSE Insert(map, Trim(RSplitOnce(part, <<"=">>)[1]), RSplitOnce(part, <<"=">>)[2])

AddPair(map, part) ==
    IF Matches(part, <<"=">>) = {} THEN map
    ELSE Insert(map, Trim(SplitOnce(part, <<"=">>)[1]), SplitOnce(part, <<"=">>)[2])

TrimSlashes(text) ==
    LET first == Texts!SelectInSeq(text, LAMBDA c : c # "/")
    IN  IF first = 0 THEN <<>> ELSE SubSeq(text, first, Len(text))

ParseSourcePath(text) ==
    LET trimmed == TrimSlashes(text)
        cut == IF Matches(trimmed, <<"?">>) = {} THEN <<trimmed, <<>> >>
               ELSE SplitOnce(trimmed, <<"?">>)
        segs == IF Matches(cut[1], <<"/">>) = {} THEN <<cut[1], <<>> >>
                ELSE SplitOnce(cut[1], <<"/">>)
        typed == IF segs[1] = <<>> THEN EmptyMap ELSE Insert(EmptyMap, <<"type">>, segs[1])
        named == IF segs[2] = <<>> THEN typed ELSE Insert(typed, <<"name">>, segs[2])
    IN  Texts!FoldLeft(AddPair, named, Split(cut[2], "&"))

ParseOptions(tokens) ==
    Texts!FoldLeft(LAMBDA map, token : Texts!FoldLeft(AddPair, map, Split(token, ",")), EmptyMap, tokens)

Value(opts, key) == IF <<key>> \in DOMAIN opts THEN opts[<<key>>] ELSE <<>>

Failed == [outcome |-> "failed"]
NeedSecret(opts) == [outcome |-> "need_secret", opts |-> opts]

(* What is served: the configuration, and for S3 the secret it is used     *)
(* with.  `stored` is what the extension reads in the Keychain under the   *)
(* name, a set of one text or none.                                        *)
BuildS3(opts, stored) ==
    LET secrets == IF stored # {} THEN stored
                   ELSE IF <<"secret">> \in DOMAIN opts THEN {opts[<<"secret">>]} ELSE {}
    IN  IF Value(opts, "bucket") = <<>> \/ Value(opts, "access_key_id") = <<>> THEN Failed
        ELSE IF secrets = {} THEN NeedSecret(opts)
        ELSE [outcome |-> "ready", secret |-> CHOOSE s \in secrets : TRUE,
              config |-> [type |-> "s3", name |-> Value(opts, "name"),
                          fields |-> [k \in QueryFields |-> Value(opts, k)]]]

Build(opts, stored) ==
    CASE Value(opts, "type") = <<"memory">> -> [outcome |-> "ready", config |-> [type |-> "memory"]]
      [] Value(opts, "type") = <<"s3">>     -> BuildS3(opts, stored)
      [] OTHER                              -> Failed

(* load, then activate for a configuration that still lacks its secret,    *)
(* which is all that activate takes from the options.                      *)
Serve(source, tokens, stored) ==
    LET loaded == Build(ParseSourcePath(source), stored)
        given == ParseOptions(tokens)
    IN  IF loaded.outcome # "need_secret" THEN loaded
        ELSE IF <<"secret">> \in DOMAIN given
        THEN Build(Insert(loaded.opts, <<"secret">>, given[<<"secret">>]), stored)
        ELSE loaded

-----------------------------------------------------------------------------
(* The row /sbin/mount prints of the mount, and how it is read             *)
(* (mounts::parse_line).                                                   *)

FsType == <<"fskit-s3">>

Row(device, point) ==
    device \o <<Blank, "on", Blank>> \o point \o <<Blank, "(">> \o FsType \o <<",", Blank, "local", ")">>

MutantParseRow(row) ==                         \* the first " (" ends the mount point
    LET rest == SplitOnce(row, <<Blank, "on", Blank>>)[2]
        cut == SplitOnce(rest, <<Blank, "(">>)
    IN  [mount_point |-> Trim(cut[1]), fs_type |-> Split(cut[2], ",")[1]]

ParseRow(row) ==
    LET rest == SplitOnce(row, <<Blank, "on", Blank>>)[2]
        cut == RSplitOnce(rest, <<Blank, "(">>)
        first == Split(cut[2], ",")[1]
        open == Texts!SelectLastInSeq(first, LAMBDA c : c # ")")
    IN  [mount_point |-> Trim(cut[1]), fs_type |-> Trim(SubSeq(first, 1, open))]

-----------------------------------------------------------------------------
(* The probe: the running extension fails the load of /_info with its      *)
(* version and commit, which the application reads off mount's output.     *)

Info(version, sha) == [version |-> version, sha |-> sha]

NoInfo == [none |-> TRUE]

InfoMessage(info) == <<"running:", Blank, "version=", info.version, Blank, "sha=", info.sha>>

MutantField(text, key) ==                      \* what follows the last key
    IF Matches(text, <<key>>) = {} THEN <<>>
    ELSE Split(Trim(RSplitOnce(text, <<key>>)[2]), Blank)[1]

(* What stands between the first key and the second, up to a blank. *)
Field(text, key) ==
    IF Matches(text, <<key>>) = {} THEN <<>>
    ELSE Split(Trim(Split(text, key)[2]), Blank)[1]

ParseInfo(text) ==
    LET version == Field(text, "version=")
        sha == Field(text, "sha=")
    IN  IF version = <<>> \/ sha = <<>> THEN NoInfo ELSE Info(version, sha)
=============================================================================
