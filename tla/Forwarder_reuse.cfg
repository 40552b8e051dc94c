SPECIFICATION ForwarderSpec
CONSTANTS
  Tasks = {t1, t2}
  Queries = {q1, q2}
  Ports = {c1, c2}
  NServers = 2
  Servfail = Servfail
  PortReuse = TRUE
SYMMETRY Symmetry
INVARIANT NeverCrossMatched
