------------------------------- MODULE Health -------------------------------
(***************************************************************************)
(* app/src/health.rs: what a health check reports of FSKit's answer, of    *)
(* the builds' commits, and of the running extension's own word; and how   *)
(* xcode/host/Health.swift shows a report in the menu bar.                 *)
(***************************************************************************)
EXTENDS Naturals, Sequences

Lists == INSTANCE SequencesExt

CONSTANT Dirty           \* the commits that end in "-dirty"

(* A bundle without the key has no commit. *)
NoSha == "none"

IsRealSha(sha) == sha \notin {NoSha, "", "unknown"}

Unknown == [kind |-> "unknown"]

MutantFreshness(sha, host) ==                  \* placeholders are compared as well
    IF sha = host THEN [kind |-> "match", sha |-> sha, dirty |-> sha \in Dirty]
    ELSE [kind |-> "mismatch", registered |-> sha, host |-> host]

(* freshness_for and running_freshness (whose None is Unknown as well).    *)
Freshness(sha, host) ==
    IF ~IsRealSha(sha) \/ ~IsRealSha(host) THEN Unknown
    ELSE IF sha = host THEN [kind |-> "match", sha |-> sha, dirty |-> sha \in Dirty]
    ELSE [kind |-> "mismatch", registered |-> sha, host |-> host]

Report(health, freshness) == [health |-> health, freshness |-> freshness]

(* FSKit's answer is its modules, the first of which with our identifier   *)
(* counts, or else (~answered) an error, no list, or none within the       *)
(* timeout of check.                                                       *)
BuildReport(answered, modules, host) ==
    LET ours == Lists!SelectInSeq(modules, LAMBDA m : m.ours)
    IN  IF ~answered THEN Report("error", Unknown)
        ELSE IF ours = 0 THEN Report("not_installed", Unknown)
        ELSE Report(IF modules[ours].enabled THEN "ready" ELSE "disabled",
                    Freshness(modules[ours].sha, host))

(* check: an enabled module is asked what runs (NoSha: no answer), which   *)
(* wins when it can be compared.                                           *)
Check(answered, modules, running, host) ==
    LET report == BuildReport(answered, modules, host)
        fresh == Freshness(running, host)
    IN  IF report.health = "ready" /\ fresh # Unknown
        THEN [report EXCEPT !.freshness = fresh] ELSE report

(* The menu bar's symbol. *)
BarSymbol(report) ==
    IF report.freshness.kind = "mismatch" \/ report.health # "ready" THEN "cloud.bolt" ELSE "cloud.fill"
=============================================================================
