------------------------------ MODULE Reports -------------------------------
(***************************************************************************)
(* The reports that are a function of what was read: one case is chosen,   *)
(* the tool or the operation it belongs to answers it, and the answer is   *)
(* held against what the case says.                                        *)
(***************************************************************************)
EXTENDS SecurityReport, UpdatesReport, FirewallLookup, AccessLog

VARIABLES
    case,   \* what there is to be read
    report  \* the answer, NoReport until it is given

repVars == <<case, report>>
NoReport == [part |-> "none"]

RepInit ==
    /\ \/ case \in AideInputs \/ case \in AuditInputs \/ case \in RkInputs \/ case \in DebsumsInputs
       \/ case \in IpsInputs \/ case \in SshInputs \/ case \in UpdatesInputs
       \/ case \in LookupInputs \/ case \in AccessInputs
    /\ report = NoReport

Answer(part, r) ==
    /\ report = NoReport /\ case.part = part /\ report' = r
    /\ UNCHANGED case

ReportAide == Answer("aide", Aide(case))
ReportAuditd == Answer("auditd", Auditd(case))
ReportRkhunter == Answer("rkhunter", Rkhunter(case))
ReportDebsums == Answer("debsums", Debsums(case))
ReportIps == Answer("ips", Ips(case))
ReportSsh == Answer("ssh", Ssh(case))
ReportUpdates == Answer("updates", Updates(case))
ReportLookup == Answer("lookup", Lookup(case))
ReportAccess == Answer("access", NginxApacheStatus(case))

RepNext == \/ ReportAide \/ ReportAuditd \/ ReportRkhunter \/ ReportDebsums \/ ReportIps
           \/ ReportSsh \/ ReportUpdates \/ ReportLookup \/ ReportAccess
RepSpec == RepInit /\ [][RepNext]_repVars

Given(part) == case.part = part /\ report # NoReport

-----------------------------------------------------------------------------
\* No figure is silently missing: a scanner that is reported as present without
\* its count comes with a warning or an error that says why, unless AIDE has left
\* neither a database nor a log; update counts are missing exactly when the lock
\* was not acquired, and an unknown lock has its error; and a ban count of -1 has
\* its error, unless the helper finds no fail2ban-client where the daemon does.
NullsExplained ==
    /\ \A part \in {"aide", "auditd", "rkhunter", "debsums"} :
          Given(part) /\ report.present /\ report.count = Null =>
              report.says # {} \/ (part = "aide" /\ report.ts = Null)
    /\ Given("updates") =>
          /\ report.pending = Null <=> report.lock # "acquired"
          /\ report.lock = "unknown" => "apt" \in report.errors
          /\ report.apt_update = Null => "no_stamp" \in report.says
          /\ report.errors \subseteq report.says
    /\ Given("ips") /\ report.bans = -1 => report.says # {} \/ case.run = "missing"

\* The answer to a host with a database, a newest log that can be opened, and no
\* log configured in the manifest.
FromNewest == /\ Given("aide") /\ case.call = "ok" /\ case.db /\ case.log.st = "unset"
              /\ case.dir # <<>> /\ case.dir[1].st = "read"

\* The newest log comes first: if its scan was cut short there is no count, and a
\* count found in it, zero for a clean run, is the one that is shown.  An exit code
\* of zero never stands beside changes, unless a configured log that states numbers
\* under no headline put them there.  What happens when no count was found in the
\* newest log is the subject of AideIsNewest.
AideHeedsNewest ==
    /\ FromNewest =>
          /\ case.dir[1].cut => report.count = Null
          /\ ~case.dir[1].cut /\ Found(case.dir[1]).count # Null => report.count = Found(case.dir[1]).count
    /\ Given("aide") /\ report.exit = Some(0) /\ (case.log.st = "read" => case.log.head # "none")
          => report.count = Some(0)

\* aide_summary.go:147-150 and aide_regression_test.go:64-71: the count of an older
\* run is never shown for the newest one, rather nothing than the wrong thing.  The
\* newest log is the report of a run if it has AIDE's headline.
AideIsNewest ==
    FromNewest /\ case.dir[1].head # "none" => report.count \in {Null, parseAideLog(case.dir[1]).count}

\* The window named beside the login counts is the one they were counted in:
\* since the rotation only if the file was read to its end from its beginning,
\* 24 hours without a warning only if the journal reaches back so far, within
\* the tolerance and as far as that can be known; and there are counts unless
\* no window is named.
SshWindowTrue ==
    Given("ssh") =>
        /\ report.count = Null <=> report.window = "unavailable"
        /\ report.window = "since_log_rotation" => case.file = "whole"
        /\ report.window = "last_24h" /\ report.says = {} /\ case.probe =>
              case.oldest <= Now - Window + Tolerance \/ case.btime > Now - Window

\* Both of the above, which are about figures that are not what they seem.
FiguresExplained == NullsExplained /\ SshWindowTrue

\* What is meant by a value: the addresses it covers.
AddressesOf(v) == IF v.t = "prefix" THEN {a \in Addr : PrefixContains(v, v.fam, a)} ELSE v.lo..v.hi

\* The rule is in the answer exactly if one of the values it is read to name shares
\* an address with the query, and is called exact only if that value is the query's
\* one address; the elements are in it exactly if they do too and were asked for.
\* Read is every address, prefix and range, bare or in a set it refers to, however
\* aligned: not a concatenation, a map's pair, or a wrapped member of an anonymous set.
LookupFindsOverlaps ==
    Given("lookup") =>
        LET Reads(v) == v.t # "unread" /\ (case.form = "ref" \/ ~v.wrapped)
            Meets(v) == v.fam = case.q.fam /\ AddressesOf(v) \cap AddressesOf(case.q) # {}
            met == {case.values[i] : i \in {k \in DOMAIN case.values :
                                               Reads(case.values[k]) /\ Meets(case.values[k])}}
        IN  /\ report.matches # {} <=> met # {} /\ case.field = "saddr"
            /\ {h.value : h \in report.sets} = IF case.form = "ref" /\ case.include THEN met ELSE {}
            /\ "exact" \in report.matches => \E v \in met : v.t = "addr" /\ v.lo = case.q.lo

\* The counts are those of the minutes that the answer names, in the whole log and
\* not only in the tail that was read, if lines are stamped in order; up to the
\* lines of the first of these minutes, of which the tail may hold a part.
AccessCountsTrue ==
    Given("access") /\ report.coverage # "unavailable" /\ InOrder(case.log) =>
        LET from == Clock - report.minutes
            Lines4(t) == Cardinality({i \in DOMAIN case.log : case.log[i].ts > t /\ case.log[i].class = 4})
        IN  /\ Lines4(from) <= report.r4[1]
            /\ report.r4[1] <= Cardinality({i \in DOMAIN case.log :
                                              case.log[i].ts >= from /\ case.log[i].class = 4})
=============================================================================
