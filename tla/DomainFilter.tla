---------------------------- MODULE DomainFilter ----------------------------
(***************************************************************************)
(* The domain filter's patterns (pkg/proxy/domainfilter.go).  A name or    *)
(* pattern is the sequence of its characters, of which only "." and "*"    *)
(* mean anything; the case and the blanks around it that the code          *)
(* normalises away are left out.  Lists of patterns are sets: their order  *)
(* decides nothing.                                                        *)
(***************************************************************************)
EXTENDS Naturals, SequencesExt

CONSTANT Char   \* the characters names and patterns are made of

ASSUME CharAssumption == {".", "*"} \subseteq Char

\* strings.TrimSuffix(s, ".")
Normalized(s) == IF s # <<>> /\ Last(s) = "." THEN Front(s) ELSE s

Nil == [allow |-> {}, deny |-> {}]

\* parsePatterns, of one pattern
Parsed(p) ==
  IF p = <<"*">> THEN [wildcard |-> TRUE, suffix |-> <<>>]
  ELSE IF IsPrefix(<<"*", ".">>, p) THEN [wildcard |-> TRUE, suffix |-> Tail(p)]
  ELSE [wildcard |-> FALSE, suffix |-> p]

parsePatterns(raw) == {Parsed(p) : p \in {Normalized(r) : r \in raw} \ {<<>>}}

\* without any pattern there is no filter: an allow list of blanks allows all
newDomainFilter(rules) ==
  [allow |-> parsePatterns(rules.allow), deny |-> parsePatterns(rules.deny)]

\* "*.example.com" matches the names below example.com and itself
matchesAny(domain, patterns) ==
  \E p \in patterns :
    IF p.wildcard
    THEN p.suffix = <<>> \/ IsSuffix(p.suffix, domain) \/ domain = Tail(p.suffix)
    ELSE domain = p.suffix

\* Deny is checked after allow; the root always passes.
Allowed(filter, domain) ==
  LET name == Normalized(domain) IN
  \/ filter = Nil \/ name = <<>>
  \/ /\ filter.allow = {} \/ matchesAny(name, filter.allow)
     /\ ~matchesAny(name, filter.deny)
-----------------------------------------------------------------------------
\* What the lists mean.  A name lies in a zone if it is the zone's name or
\* ends in it after a dot ...
InZone(name, zone) ==
  \/ name = zone
  \/ \E i \in 1..Len(name) : name[i] = "." /\ SubSeq(name, i + 1, Len(name)) = zone

Covers(pattern, name) ==
  \/ pattern \in {<<"*">>, name}
  \/ \E zone \in {SubSeq(pattern, 3, Len(pattern))} :
       pattern = <<"*", ".">> \o zone /\ InZone(name, zone)

\* ... and it passes when no pattern of the deny list covers it and, if the
\* allow list has a pattern at all, one of that list does.  The root passes.
Passes(lists, domain) ==
  LET name == Normalized(domain)
      Covered(list) == \E p \in list : Covers(Normalized(p), name)
  IN  \/ name = <<>>
      \/ /\ ~Covered(lists.deny)
         /\ (\A p \in lists.allow : Normalized(p) = <<>>) \/ Covered(lists.allow)
=============================================================================
