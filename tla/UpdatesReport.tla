--------------------------- MODULE UpdatesReport ----------------------------
(***************************************************************************)
(* The updates tool: three helper calls made at once, and the stamps that  *)
(* apt leaves on the disk.                                                 *)
(***************************************************************************)
EXTENDS Integers, Sequences, FiniteSets

\* What apt-get does: it cannot be asked, finds the lock taken, fails otherwise,
\* writes something that cannot be scanned to its end, or lists the upgrades; and
\* what dpkg says of held packages.  The other two calls fail or answer.  A stamp
\* is the time of the file, gone, or denied.
Stamps == {"gone", "denied", "old", "new"}
UpdatesInputs ==
    [part : {"updates"}, apt : {"unreachable", "locked", "broken", "cut", "listed"},
     dpkg : {"failed", "cut", "listed"}, need : {"failed", "none", "some"},
     uu : {"failed", "on", "off"}, stamps : Stamps \X Stamps]

\* AptPending, as the daemon decodes it.  Whatever makes apt-get fail is taken for
\* a lock that somebody else holds; output that was cut short fails the operation.
AptFailed == [ok |-> FALSE, lock |-> "", pending |-> <<>>, held |-> {}]
AptPending(in) ==
    CASE in.apt \in {"unreachable", "cut"} -> AptFailed
      [] in.apt \in {"locked", "broken"} -> [AptFailed EXCEPT !.ok = TRUE, !.lock = "contended"]
      [] in.apt = "listed" -> [ok |-> TRUE, lock |-> "acquired", pending |-> <<3>>,
                               held |-> IF in.dpkg = "listed" THEN {"pkg"} ELSE {}]

StampTime(s) == CASE s = "old" -> 1 [] s = "new" -> 2 [] OTHER -> 0

\* The newest of the stamps that are there.
newestStamp(stamps) ==
    LET T == {StampTime(stamps[i]) : i \in DOMAIN stamps} \ {0} IN
    IF T = {} THEN <<>> ELSE <<CHOOSE t \in T : \A u \in T : u <= t>>

\* Handle: says holds a tag for each warning, errors the operations in errors[].
\* (An answer without a lock_state, which Handle also expects, is never given.)
UpdatesErrors(in) ==
    (IF AptPending(in).ok THEN {} ELSE {"apt"}) \cup {op \in {"need", "uu"} : in[op] = "failed"}
Updates(in) ==
    [lock |-> IF AptPending(in).ok THEN AptPending(in).lock ELSE "unknown",
     pending |-> AptPending(in).pending,
     held |-> AptPending(in).held,
     services |-> IF in.need = "some" THEN {"svc"} ELSE {},
     enabled |-> in.uu = "on",
     apt_update |-> newestStamp(in.stamps),
     errors |-> UpdatesErrors(in),
     says |-> UpdatesErrors(in)
              \cup (IF \E i \in DOMAIN in.stamps : in.stamps[i] = "denied" THEN {"stat"} ELSE {})
              \cup (IF newestStamp(in.stamps) = <<>> THEN {"no_stamp"} ELSE {})]
=============================================================================
