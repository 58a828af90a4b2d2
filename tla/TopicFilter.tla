---------------------------- MODULE TopicFilter ----------------------------
(***************************************************************************)
(* RTI_MQTT_TopicFilter_match (mqtt/Infrastructure.c): decides whether the *)
(* topic of a message matches a filter with the wildcards '+' and '#'.     *)
(* One step is one iteration of the loop, which advances an index into     *)
(* each of the two C strings.                                              *)
(*                                                                         *)
(* A filter or topic is given by its levels, the parts between slashes;    *)
(* the strings the function works on are the levels joined by '/'.         *)
(***************************************************************************)
EXTENDS Naturals, Sequences, Functions

CONSTANTS
    FilterLevels,  \* levels of filters: sequences of characters
    TopicLevels,   \* levels of topics
    MaxLevels      \* bound: levels of a filter or topic

ASSUME MaxLevelsAssumption == MaxLevels \in Nat \ {0}

\* The characters of strings.
Chars == {"/"} \cup UNION {Range(level) : level \in FilterLevels \cup TopicLevels}

\* A level has no slash, and no character of a C string is NUL.
ASSUME LevelAssumption ==
    \A level \in FilterLevels \cup TopicLevels :
        level \in Seq(Chars) /\ Range(level) \cap {"/", "NUL"} = {}

AnyLevel == <<"+">>
AllLevels == <<"#">>

Filters == UNION {[1 .. n -> FilterLevels] : n \in 1 .. MaxLevels}

Topics == (UNION {[1 .. n -> TopicLevels] : n \in 1 .. MaxLevels}) \ {<<<<>>>>}

Join(parts) ==
    LET joined[k \in 1 .. Len(parts)] ==
            IF k = 1 THEN parts[1] ELSE joined[k - 1] \o <<"/">> \o parts[k]
    IN  joined[Len(parts)]

VARIABLES
    levels,      \* the levels of the filter and of the topic
    filter,      \* the filter's characters
    value,       \* the topic's characters
    f_i, v_i,    \* indices into them, from 0
    match,
    match_done,
    outcome      \* what the function returned, or "running"

vars == <<levels, filter, value, f_i, v_i, match, match_done, outcome>>

Init ==
    /\ levels \in [filter : Filters, topic : Topics]
    /\ filter = Join(levels.filter)
    /\ value = Join(levels.topic)
    /\ f_i = 0
    /\ v_i = 0
    /\ match = TRUE
    /\ match_done = FALSE
    /\ outcome = "running"

-----------------------------------------------------------------------------
NUL == "NUL"

CharAt(s, i) == IF i < Len(s) THEN s[i + 1] ELSE NUL

InLoop ==
    /\ outcome = "running"
    /\ match /\ ~match_done
    /\ f_i < Len(filter) /\ v_i < Len(value)

\* The first index from i on whose character is '/', at most "last".
SlashFrom(i, last) ==
    CHOOSE j \in i .. last :
        /\ j = last \/ CharAt(value, j) = "/"
        /\ \A k \in i .. j - 1 : CharAt(value, k) # "/"

\* The end of an iteration that leaves v_i at v and consumed "used" characters
\* of the filter; the loop header then adds one to each index.
Iterate(used, v, matched, done) ==
    /\ f_i' = f_i + used
    /\ v_i' = v + 1
    /\ match' = matched
    /\ match_done' = done
    /\ UNCHANGED <<levels, filter, value, outcome>>

Invalid ==
    /\ outcome' = "ERROR"
    /\ UNCHANGED <<levels, filter, value, f_i, v_i, match, match_done>>

\* Mutant of WildcardEnds: a wildcard may only end the filter.
WildcardEndsFilter == CharAt(filter, f_i + 1) = NUL

WildcardEnds == CharAt(filter, f_i + 1) \in {"/", NUL}

Hash ==
    /\ InLoop
    /\ CharAt(filter, f_i) = "#"
    /\ \/ /\ ~WildcardEnds \/ CharAt(value, v_i) = "/"
          /\ Invalid
       \/ /\ WildcardEnds /\ CharAt(value, v_i) # "/"
          /\ IF CharAt(filter, f_i + 1) = NUL
             THEN Iterate(2, Len(value) - 1, match, TRUE)
             ELSE LET v == SlashFrom(v_i, Len(value) - 1)
                      found == CharAt(value, v) = "/"
                  IN Iterate(2, v, found, ~found)

Plus ==
    /\ InLoop
    /\ CharAt(filter, f_i) = "+"
    /\ \/ ~WildcardEnds /\ Invalid
       \/ /\ WildcardEnds
          /\ IF CharAt(value, v_i) = "/"
             THEN Iterate(2, v_i, FALSE, TRUE)
             ELSE LET v == SlashFrom(v_i, Len(value))
                  IN IF CharAt(filter, f_i + 1) = NUL
                     THEN Iterate(2, v, CharAt(value, v) = NUL, TRUE)
                     ELSE LET found == CharAt(value, v) = "/"
                          IN Iterate(2, v, found, ~found)

Literal ==
    /\ InLoop
    /\ CharAt(filter, f_i) \notin {"#", "+"}
    /\ LET same == CharAt(filter, f_i) = CharAt(value, v_i)
       IN Iterate(1, v_i, same, ~same)

\* Mutants of Finish: the filter must be consumed as well; the topic need not.
FinishWholeFilter ==
    /\ outcome = "running"
    /\ ~InLoop
    /\ outcome' = IF match /\ v_i = Len(value) /\ f_i = Len(filter)
                  THEN "match" ELSE "no match"
    /\ UNCHANGED <<levels, filter, value, f_i, v_i, match, match_done>>

FinishAnywhere ==
    /\ outcome = "running"
    /\ ~InLoop
    /\ outcome' = IF match THEN "match" ELSE "no match"
    /\ UNCHANGED <<levels, filter, value, f_i, v_i, match, match_done>>

\* All of the value must have been consumed; the filter need not be.
Finish ==
    /\ outcome = "running"
    /\ ~InLoop
    /\ outcome' = IF match /\ v_i = Len(value) THEN "match" ELSE "no match"
    /\ UNCHANGED <<levels, filter, value, f_i, v_i, match, match_done>>

Next == Hash \/ Plus \/ Literal \/ Finish

Spec == Init /\ [][Next]_vars /\ WF_vars(Next)

-----------------------------------------------------------------------------
(* Reference: MQTT's matching rule, on levels. *)

Covers(f, t) == f = AnyLevel \/ f = t

MqttMatches(f, t) ==
    LET n == Len(f)
    IN IF f[n] = AllLevels
       THEN Len(t) >= n - 1 /\ \A i \in 1 .. n - 1 : Covers(f[i], t[i])
       ELSE Len(t) = n /\ \A i \in 1 .. n : Covers(f[i], t[i])

\* MQTT wants a wildcard to be a level of its own, and '#' the last one.  The
\* code also takes topics without empty levels for granted.
WellFormed ==
    /\ \A i \in 1 .. Len(levels.filter) :
          LET level == levels.filter[i]
          IN \/ level = AnyLevel
             \/ level = AllLevels /\ i = Len(levels.filter)
             \/ level # <<>> /\ Range(level) \cap {"+", "#"} = {}
    /\ \A i \in 1 .. Len(levels.topic) : levels.topic[i] # <<>>

StartsWith(s, t) == Len(t) <= Len(s) /\ \A i \in DOMAIN t : s[i] = t[i]

\* The last level of the topic is one the filter has a '+' for.
PlusMeetsLastLevel ==
    /\ Len(levels.topic) <= Len(levels.filter)
    /\ levels.filter[Len(levels.topic)] = AnyLevel

-----------------------------------------------------------------------------
(* Properties. *)

\* A message whose topic matches the filter by MQTT's rule is recognised, for
\* every filter and topic where no '+' meets the topic's last level
\* (Infrastructure.c:273-370).
MatchesAreFound ==
    WellFormed /\ outcome = "no match" =>
        PlusMeetsLastLevel \/ ~MqttMatches(levels.filter, levels.topic)

\* A topic is taken to match only if the filter, or a part of it that it
\* starts with, matches by MQTT's rule: the filter's remainder is not looked
\* at (Infrastructure.c:372).
MatchesAreJustified ==
    WellFormed /\ outcome = "match" =>
        \E k \in 1 .. Len(levels.filter) :
            \/ MqttMatches(SubSeq(levels.filter, 1, k), levels.topic)
            \/ /\ Len(levels.topic) = k
               /\ \A i \in 1 .. k - 1 : Covers(levels.filter[i], levels.topic[i])
               /\ StartsWith(levels.filter[k], levels.topic[k])

\* With a well-formed filter and topic, matching ends without an error,
\* which would put the client in the ERROR state (Client.c:705-713).
MatchingSucceeds == WellFormed => <>(outcome \in {"match", "no match"})

============================================================================
