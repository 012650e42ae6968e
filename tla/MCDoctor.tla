-------------------------------- MODULE MCDoctor --------------------------------
(* Small instances of Doctor for TLC. *)
EXTENDS Doctor, TLC

Key(ip, proto, lo, hi, to) ==
  [ip |-> ip, proto |-> proto, lo |-> lo, hi |-> hi, to |-> to]

MCKeys == {Key(4, "tcp", 1, 2, 9), Key(4, "udp", 2, 3, 9), Key(6, "tcp", 2, 2, 9)}

\* Chains that lead on, to each other and to themselves; lines that rewrite, with one
\* protocol or port range or another.
ToChain(chain, proto, target) == Line(4, chain, proto, "all", 1, MaxPort, "-j", target)
OneRange(chain, proto, target) == Line(4, chain, proto, "range", 2, 3, "-j", target)
Redirects(chain) ==
  {Line(4, chain, "tcp", "all", 1, MaxPort, "-j", Rewrite),
   Line(4, chain, "udp", "list", 2, 2, "-j", Rewrite)}
HookRedirects ==
  {Line(4, Hook, "tcp", "range", 2, 3, "-j", Rewrite),
   Line(4, Hook, "tcp", "not", 1, 1, "-j", Rewrite),
   Line(4, Hook, "sctp", "range", 2, 3, "-j", Rewrite),
   Line(6, Hook, "tcp", "range", 1, 2, "-j", Rewrite)}
Jumps == {ToChain(c, "any", t) : c \in CustomChains \cup {Hook}, t \in CustomChains}
           \cup {OneRange(Hook, "tcp", t) : t \in CustomChains}
           \cup {ToChain(Hook, "!udp", t) : t \in CustomChains}
MCLines == UNION {Redirects(c) : c \in CustomChains} \cup HookRedirects \cup Jumps

\* The two chains are alike.
Alike == Permutations(CustomChains)

\* Lines inspectExternal does not see through.
Opaque == MCLines \cup {Line(4, Hook, "any", "all", 1, MaxPort, "-j", Rewrite)}
                  \cup {Line(4, Hook, "!udp", "all", 1, MaxPort, "-j", Rewrite)}
                  \cup {Line(4, Hook, "any", "all", 1, MaxPort, "-g", c) : c \in CustomChains}

Socket(ip, proto, port, addr, listens, dual) ==
  [ip |-> ip, proto |-> proto, port |-> port, addr |-> addr, listens |-> listens, dual |-> dual]
MCSockets ==
  {Socket(4, "tcp", 9, "host", TRUE, FALSE), Socket(4, "tcp", 9, "host", FALSE, FALSE),
   Socket(4, "udp", 9, "loopback", TRUE, FALSE),
   Socket(6, "tcp", 9, "any", TRUE, TRUE), Socket(6, "tcp", 9, "any", TRUE, FALSE),
   Socket(6, "tcp", 9, "host", TRUE, FALSE), Socket(6, "udp", 9, "any", TRUE, TRUE)}
================================================================================
