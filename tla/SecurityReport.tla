--------------------------- MODULE SecurityReport ---------------------------
(***************************************************************************)
(* The security tool: what each section of its report says, given what the *)
(* helper's operation for it returned and what the daemon itself sees on   *)
(* the disk.  A section is [present, ts, count, exit, says]: pointers are  *)
(* sequences of at most one element, and says holds a tag for each warning *)
(* and each entry of errors[] that the section adds.                       *)
(***************************************************************************)
EXTENDS Integers, Sequences, FiniteSets

CONSTANTS
    AideCounts, \* numbers that an AIDE log may state
    AideDirs,   \* what AIDE's log directory may hold, newest first
    Now,        \* the present
    Window,     \* sshJournalWindowS
    Tolerance   \* sshJournalTruncationThresholdS

Null == <<>>
Some(n) == <<n>>
Seen == {"yes", "no", "uncertain"}   \* what stat says of a list of paths

Section(present, ts, count, exit, says) ==
    [present |-> present, ts |-> ts, count |-> count, exit |-> exit, says |-> says]

\* existsOrWarn: "cannot verify" is absent, with a warning.
existsOrWarn(seen) == [present |-> seen = "yes",
                       says |-> IF seen = "uncertain" THEN {"uncertain"} ELSE {}]

\* addOpError.
opError(op) == IF op.ok THEN {} ELSE {"op_error"}

-----------------------------------------------------------------------------
(* AIDE.  The helper looks for the database and reads the logs of its own   *)
(* directory, newest first; a configured log path overrides what it found.  *)

\* What an AIDE log says: its headlines, the total it states, the sum of its
\* Added, Removed and Changed lines, whether a line is too long for the scanner,
\* and what of all this lies past the first 2 MiB.  A clean run states no numbers.
Stated == {Null} \cup {Some(n) : n \in AideCounts}
Bodies == {b \in [st : {"read"}, head : {"none", "clean", "diff", "both"},
                  total : Stated, detail : Stated, cut : BOOLEAN,
                  past : {"nothing", "numbers", "all"}] :
             /\ b.head = "clean" => b.total = Null /\ b.detail = Null
             /\ b.past # "nothing" => ~b.cut}
NoBody(st) == [st |-> st, head |-> "none", total |-> Null, detail |-> Null, cut |-> FALSE,
               past |-> "nothing"]

AideOverrides == {NoBody(st) : st \in {"unset", "gone", "closed"}} \cup {b \in Bodies : b.past = "nothing"}
AideLogs == {NoBody("closed")} \cup Bodies
AideInputs == [part : {"aide"}, call : {"failed", "ok"}, db : BOOLEAN, dir : AideDirs,
               seen : Seen, log : AideOverrides]

ASSUME SecurityAssumption ==
    /\ AideCounts \subseteq Nat /\ AideDirs \subseteq Seq(AideLogs)
    /\ {Now, Window, Tolerance} \subseteq Nat /\ Window <= Now

NoAide == [ok |-> FALSE, present |-> FALSE, ts |-> Null, count |-> Null, exit |-> Null]

\* The headlines' exit code.
headExit(b) == CASE b.head = "clean" -> Some(0)
                 [] b.head \in {"diff", "both"} -> Some(1)
                 [] OTHER -> Null

\* readMaybeGzipped: the first 2 MiB, and no error if there is more.
readMaybeGzipped(b) ==
    [b EXCEPT !.head = IF b.past = "all" THEN "none" ELSE @,
              !.total = IF b.past = "nothing" THEN @ ELSE Null,
              !.detail = IF b.past = "nothing" THEN @ ELSE Null]

\* parseAideLog.
parseAideLog(b) ==
    [count |-> CASE b.detail # Null -> b.detail
                 [] b.detail = Null /\ b.total # Null -> b.total
                 [] b.detail = Null /\ b.total = Null /\ b.head = "clean" -> Some(0)
                 [] OTHER -> Null,
     exit |-> headExit(b)]

\* readAideLog: the newest log in which a count was found; one that cannot be
\* opened, or in which no count was found, is passed over, one whose scan was cut
\* short ends the search.
Found(b) == parseAideLog(readMaybeGzipped(b))
Counted(dir) == {i \in DOMAIN dir : dir[i].st = "read" /\ Found(dir[i]).count # Null}
Newest(I) == CHOOSE i \in I : \A j \in I : i <= j
readAideLogPastBroken(dir) ==
    LET I == {i \in Counted(dir) : ~dir[i].cut} IN
    IF I = {} THEN [count |-> Null, exit |-> Null] ELSE Found(dir[Newest(I)])
readAideLog(dir) ==
    LET I == Counted(dir) \cup {i \in DOMAIN dir : dir[i].cut} IN
    IF I = {} \/ dir[Newest(I)].cut THEN [count |-> Null, exit |-> Null]
    ELSE Found(dir[Newest(I)])

\* ReadAideSummary, as the daemon decodes it: nothing if the call failed.
ReadAideSummary(in) ==
    CASE in.call = "failed" -> NoAide
      [] in.call = "ok" /\ ~in.db -> [NoAide EXCEPT !.ok = TRUE]
      [] OTHER -> LET r == readAideLog(in.dir) IN
                  [ok |-> TRUE, present |-> TRUE, ts |-> Some(1), count |-> r.count, exit |-> r.exit]

\* fillAideFromLog, the clean headline leaving a count that is there.
fillAideFromLog(s, log) ==
    [s EXCEPT !.ts = Some(2),
              !.count = CASE log.head = "clean" -> Some(0)
                          [] log.head # "clean" /\ log.detail # Null -> log.detail
                          [] log.head # "clean" /\ log.detail = Null /\ log.total # Null -> log.total
                          [] OTHER -> @,
              !.exit = IF headExit(log) # Null THEN headExit(log) ELSE @,
              !.says = @ \cup IF log.cut THEN {"scan"} ELSE {}]

Aide(in) ==
    LET e == existsOrWarn(in.seen)
        op == ReadAideSummary(in)
        s == Section(op.present \/ e.present, op.ts, op.count, op.exit,
                     opError(op) \cup IF op.present THEN {} ELSE e.says)
        f == CASE in.log.st = "unset"  -> s
               [] in.log.st = "gone"   -> [s EXCEPT !.says = @ \cup {"log_path"}]
               [] in.log.st = "closed" -> [s EXCEPT !.ts = Some(2), !.says = @ \cup {"log_path"}]
               [] in.log.st = "read"   -> fillAideFromLog(s, in.log)
    IN  [f EXCEPT !.says = @ \cup IF f.present /\ f.ts # Null /\ f.count = Null
                                  THEN {"unparseable"} ELSE {}]

-----------------------------------------------------------------------------
(* auditd: count stands for queue_depth and lost_events.                    *)

AuditInputs == [part : {"auditd"}, op : {"failed", "absent", "netlink", "ok"}, seen : Seen]

Auditd(in) ==
    LET e == existsOrWarn(in.seen) IN
    Section(in.op = "ok" \/ e.present,
            Null,
            IF in.op = "ok" THEN Some(1) ELSE Null,
            Null,
            (IF in.op = "failed" THEN {"op_error"} ELSE {})
              \cup (IF in.op = "ok" THEN {} ELSE e.says)
              \cup CASE in.op = "netlink" -> {"netlink"}
                     [] in.op \in {"failed", "absent"} /\ in.seen = "yes" -> {"no_kernel_audit"}
                     [] OTHER -> {})

-----------------------------------------------------------------------------
(* rkhunter: a failed operation is not diagnosed a second time.             *)

RkOps == {NoAide, [NoAide EXCEPT !.ok = TRUE], [NoAide EXCEPT !.ok = TRUE, !.present = TRUE]}
         \cup {[ok |-> TRUE, present |-> TRUE, ts |-> Some(1), count |-> c, exit |-> Null] :
                 c \in {Null, Some(0)}}
RkInputs == [part : {"rkhunter"}, op : RkOps, seen : Seen]

rkDiagnosis(op, present) ==
    CASE op.ok /\ present /\ op.ts = Null                         -> {"log_absent"}
      [] op.ok /\ present /\ op.ts # Null /\ op.count = Null      -> {"unreadable"}
      [] OTHER -> {}

Rkhunter(in) ==
    LET e == existsOrWarn(in.seen)
        p == in.op.present \/ e.present
    IN  Section(p, in.op.ts, in.op.count, Null,
                opError(in.op) \cup (IF in.op.present THEN {} ELSE e.says)
                  \cup rkDiagnosis(in.op, p))

-----------------------------------------------------------------------------
(* debsums: a configured log, else the systemd timer, else a warning.       *)

DebsumsInputs == [part : {"debsums"}, seen : Seen,
                  log : {"unset", "gone", "unparseable", "ok"},
                  timer : {"failed", "absent", "never", "fired"}]

fillDebsums(in) ==
    CASE in.log = "gone"        -> [ts |-> Null,    count |-> Null,    says |-> {"log_path"}]
      [] in.log = "unparseable" -> [ts |-> Some(1), count |-> Null,    says |-> {"log_parse"}]
      [] in.log = "ok"          -> [ts |-> Some(1), count |-> Some(1), says |-> {}]
      [] in.log = "unset" /\ in.timer = "fired" ->
                                   [ts |-> Some(1), count |-> Null,    says |-> {"from_timer"}]
      [] in.log = "unset" /\ in.timer = "failed" ->
                                   [ts |-> Null,    count |-> Null,    says |-> {"op_error", "timer"}]
      [] OTHER ->                  [ts |-> Null,    count |-> Null,    says |-> {"timer"}]

Debsums(in) ==
    LET e == existsOrWarn(in.seen) IN
    IF e.present
    THEN LET d == fillDebsums(in) IN Section(TRUE, d.ts, d.count, Null, d.says)
    ELSE Section(FALSE, Null, Null, Null, e.says)

-----------------------------------------------------------------------------
(* Intrusion prevention: the disk is looked at twice, and the client may be *)
(* installed or removed in between.                                         *)

IpsInputs == [part : {"ips"}, before : {"fail2ban", "crowdsec", "none"},
              after : {"fail2ban", "crowdsec", "none"}, run : {"failed", "missing", "ok"},
              jails : {<<>>} \cup [1..2 -> {"banned", "failed", "cut"}]]

\* Fail2banStatus: a jail whose status fails is passed over, one whose status
\* was cut short fails the operation.
Fail2banStatus(in) ==
    CASE in.run = "missing" -> "absent"
      [] in.run = "failed" \/ (in.run = "ok" /\ \E i \in DOMAIN in.jails : in.jails[i] = "cut") -> "error"
      [] OTHER -> "ok"

Ips(in) ==
    [backend |-> in.after,
     bans |-> CASE in.before # "fail2ban"  -> 0
                [] in.before = "fail2ban" /\ Fail2banStatus(in) = "ok" ->
                     Cardinality({i \in DOMAIN in.jails : in.jails[i] = "banned"})
                [] OTHER -> -1,
     says |-> IF in.before = "fail2ban" /\ Fail2banStatus(in) = "error" THEN {"op_error"} ELSE {}]

-----------------------------------------------------------------------------
(* SSH logins: from the log file if it was read whole, else from the        *)
(* journal's last 24 hours, else not at all.                                *)

SshInputs == [part : {"ssh"}, file : {"absent", "closed", "broken", "tail", "whole"},
              run : {"failed", "missing", "ok"}, probe : BOOLEAN,
              btime : 0..Now, oldest : 0..Now]

\* readAuthLogCounters: found, truncated, err.
readAuthLogCounters(file) == [found |-> file \in {"tail", "whole"},
                              truncated |-> file = "tail", err |-> file = "broken"]

\* sshJournalTruncated, for a host that was up when the window began.
sshJournalTruncatedYoung(btime, oldest) ==
    btime > Now - Window /\ oldest - (Now - Window) > Tolerance
sshJournalTruncated(btime, oldest) ==
    btime <= Now - Window /\ oldest - (Now - Window) > Tolerance

\* SshJournalCounts in the helper and journalCounters in the daemon.
journalCounters(in) ==
    CASE in.run = "failed"  -> [window |-> "unavailable", count |-> Null, says |-> {"op_error"}]
      [] in.run = "missing" -> [window |-> "unavailable", count |-> Null, says |-> {}]
      [] in.run = "ok" /\ in.probe /\ sshJournalTruncated(in.btime, in.oldest) ->
             [window |-> "last_24h", count |-> Some(24), says |-> {"retains_less"}]
      [] OTHER -> [window |-> "last_24h", count |-> Some(24), says |-> {}]

Ssh(in) ==
    LET r == readAuthLogCounters(in.file)
        j == journalCounters(in)
    IN  IF r.found /\ ~r.truncated
        THEN [window |-> "since_log_rotation", count |-> Some(99), says |-> {}]
        ELSE [j EXCEPT !.says = @ \cup (IF r.err THEN {"incomplete"} ELSE {})
                                  \cup (IF r.truncated THEN {"read_cap"} ELSE {})]
=============================================================================
