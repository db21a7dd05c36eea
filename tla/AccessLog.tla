----------------------------- MODULE AccessLog ------------------------------
(***************************************************************************)
(* The nginx_apache_status operation: the 4xx and 5xx of the last minutes, *)
(* counted in the tail of the access log, and how much of the window that  *)
(* tail covers.                                                            *)
(***************************************************************************)
EXTENDS Naturals, Sequences, FiniteSets

CONSTANTS
    Clock,     \* now, in minutes; a time stamp of 0 does not parse
    WindowMin, \* access_log_window_minutes
    MaxLogLines \* lines a log can have

ASSUME AccessLogAssumption == {Clock, WindowMin, MaxLogLines} \subseteq Nat \ {0} /\ WindowMin < Clock

\* A line: its time stamp, its status class (0 if there is none to be found),
\* and whether it is longer than the scanner takes.
Lines == [ts : 0..Clock, class : {0, 2, 4, 5}, long : {FALSE}]
         \cup [ts : {Clock}, class : {4}, long : {TRUE}]

\* nginx writes a line when the request is done and stamps it then; Apache stamps
\* it with the time the request came in.
InOrder(log) == \A i, j \in DOMAIN log : i < j /\ log[i].ts # 0 /\ log[j].ts # 0 => log[i].ts <= log[j].ts
Logs == UNION {[1..n -> Lines] : n \in 0..MaxLogLines}

AccessInputs ==
    [part : {"access"}, server : {"none"}, path : {"unset"}, log : {<<>>}, tail : {1}]
    \cup [part : {"access"}, server : {"nginx"}, path : {"unset", "forbidden", "unreadable"},
          log : {<<>>}, tail : {1}]
    \cup {in \in [part : {"access"}, server : {"nginx", "apache"}, path : {"open"}, log : Logs,
                  tail : 1..(MaxLogLines + 1)] : in.server = "nginx" => InOrder(in.log)}

\* readAccessLogTail, in lines: if the tail leaves out part of the file, its
\* first line is a fragment and is thrown away.
readAccessLogTail(log, tail) ==
    IF tail >= Len(log) THEN log ELSE SubSeq(log, Len(log) - tail + 2, Len(log))

\* parseAccessLogTail: nothing if a line is too long for the scanner, or if no
\* time stamp parses.
parseAccessLogTailBefore(tail) ==
    LET cut == {i \in DOMAIN tail : \A j \in 1..i : ~tail[j].long}
        parsed == {i \in cut : tail[i].ts # 0}
        Count(c) == Cardinality({i \in parsed : tail[i].ts >= Clock - WindowMin /\ tail[i].class = c})
    IN  [any |-> parsed # {}, r4 |-> Count(4), r5 |-> Count(5),
         oldest |-> IF parsed = {} THEN 0
                    ELSE CHOOSE t \in {tail[i].ts : i \in parsed} : \A i \in parsed : t <= tail[i].ts]
parseAccessLogTail(tail) ==
    LET parsed == {i \in DOMAIN tail : tail[i].ts # 0}
        Count(c) == Cardinality({i \in parsed : tail[i].ts >= Clock - WindowMin /\ tail[i].class = c})
    IN  IF parsed = {} \/ \E i \in DOMAIN tail : tail[i].long
        THEN [any |-> FALSE, r4 |-> 0, r5 |-> 0, oldest |-> 0]
        ELSE [any |-> TRUE, r4 |-> Count(4), r5 |-> Count(5),
              oldest |-> CHOOSE t \in {tail[i].ts : i \in parsed} : \A i \in parsed : t <= tail[i].ts]

Unavailable(why) == [coverage |-> "unavailable", r4 |-> <<>>, r5 |-> <<>>, minutes |-> 0, warning |-> why]

\* NginxApacheStatus.
NginxApacheStatus(in) ==
    LET p == parseAccessLogTail(readAccessLogTail(in.log, in.tail)) IN
    CASE in.server = "none" -> Unavailable("no server")
      [] in.server # "none" /\ in.path # "open" -> Unavailable(in.path)
      [] in.path = "open" /\ ~p.any -> Unavailable("no parseable time stamps")
      [] in.path = "open" /\ p.any ->
           [coverage |-> IF p.oldest <= Clock - WindowMin THEN "full" ELSE "partial",
            r4 |-> <<p.r4>>, r5 |-> <<p.r5>>,
            minutes |-> IF p.oldest <= Clock - WindowMin THEN WindowMin ELSE Clock - p.oldest,
            warning |-> ""]
=============================================================================
