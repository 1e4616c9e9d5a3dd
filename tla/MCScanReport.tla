----------------------------- MODULE MCScanReport ----------------------------
(***************************************************************************)
(* Command lines for TLC: up to two tests and up to two port ranges; three *)
(* outcomes, two of which differ in a word of the server only.             *)
(***************************************************************************)
EXTENDS ScanReport

CONSTANTS r1, r2, none

\* One test of each kind of build_registry.
Registry ==
  [open |-> {"tcp", "udp"}, tls |-> {"tcp"}, ping |-> {"icmp"}]
Layer3 == {"ping"}

UpTo2(S) == {<<>>} \cup {<<x>> : x \in S} \cup {<<x, y>> : x, y \in S}

AnyTests == UpTo2({"open", "tls", "ping", "nope"})
AnySpecs ==
  UpTo2({Written("tcp", <<1, 2>>), Written("tcp", <<1, 3>>), Written("tcp", <<3>>),
         Written("udp", <<2>>), Written("icmp", <<AnyPort>>)})
    \cup {<<Written("udp", <<2, 1>>)>>, <<Written("sctp", <<1>>)>>,
          <<Written("tcp", <<>>)>>, <<Written("tcp", <<1, Garbage>>)>>,
          <<Written("tcp", <<AnyPort>>)>>, <<Written("icmp", <<1>>)>>,
          <<Written("icmp", <<0>>), Written("udp", <<2, 4>>)>>}

SortedNames == <<"open", "ping", "tls">>

SomeOutcomes ==
  {[status |-> "pass", reason |-> none, server_error |-> none],
   [status |-> "fail", reason |-> r1, server_error |-> none],
   [status |-> "fail", reason |-> r1, server_error |-> r2]}
=============================================================================
