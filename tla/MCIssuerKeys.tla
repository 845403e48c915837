---------------------------- MODULE MCIssuerKeys ----------------------------
(* A small instance of IssuerKeys for TLC. *)
EXTENDS IssuerKeys

CONSTANTS k1, k2, s1, s2

MCKeys    == {k1, k2}
MCSources == {s1, s2}

\* No key, one, two, and one beside a key that cannot be used.
MCDocuments == {<<>>, <<Unusable>>, <<k1>>, <<k2>>, <<k1, k2>>, <<k2, Unusable>>}

Raw(name, source) ==
  [blank |-> FALSE, assigns |-> TRUE, name |-> name, source |-> source]

\* An issuer with two endpoints, of which the first may fail, and behind its
\* entries an issuer with one that answers; between them an entry that is
\* blank and one that does not parse.
OneReliable == {s2}
MCRawEntries ==
  << Raw("a", s1), [Raw("", s1) EXCEPT !.blank = TRUE], Raw("a", s2),
     [Raw("c", s1) EXCEPT !.assigns = FALSE], Raw("b", s2) >>

\* Two issuers with an endpoint each, which lists one key at a time.
MCOneEach      == << Raw("a", s1), Raw("b", s2) >>
MCOneDocuments == {<<k1>>, <<k2>>}
=============================================================================
