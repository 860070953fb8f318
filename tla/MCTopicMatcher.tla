--------------------------- MODULE MCTopicMatcher ---------------------------
(***************************************************************************)
(* TLC instances of TopicMatcher.  The page has a seed title of both       *)
(* topics, a weak one that topic 1 excludes and that holds one keyword of  *)
(* topic 2, or a strong one with a keyword of topic 1 and two of topic 2;  *)
(* its categories are unrelated, related to topic 2, or excluded by it.    *)
(***************************************************************************)
EXTENDS TopicMatcher, TLC

AllTitles == {"seed", "weak", "strong"}
AllCategories == {"unrelated", "related", "films"}

TwoTopics ==
    << [seedPage |-> FALSE, seedTitles |-> {"seed"}, excludeTitles |-> {"weak"},
        titleHits |-> [seed |-> 0, weak |-> 0, strong |-> 1],
        categoryRules |-> FALSE,
        exact |-> [c \in AllCategories |-> FALSE],
        keywordHits |-> [c \in AllCategories |-> 0],
        excluded |-> [c \in AllCategories |-> FALSE]],
       [seedPage |-> FALSE, seedTitles |-> {"seed"}, excludeTitles |-> {},
        titleHits |-> [seed |-> 1, weak |-> 1, strong |-> 2],
        categoryRules |-> TRUE,
        exact |-> [c \in AllCategories |-> c = "related"],
        keywordHits |-> [c \in AllCategories |-> IF c = "related" THEN 1 ELSE 0],
        excluded |-> [c \in AllCategories |-> c = "films"]] >>

\* The processes of the group are interchangeable.
Symmetry == Permutations(Processes)
=============================================================================
