-------------------------- MODULE ArticleLifecycle ---------------------------
(***************************************************************************)
(* What the pipeline promises the services behind it about one row of      *)
(* articles, as docs/low-level-design/pipeline-lld.md tells it: an article *)
(* is stored once, with its matches or as dropped; a stored news article   *)
(* is summarised; only then are its matches published, and only matches    *)
(* the table holds (unless the topic was deleted meanwhile).  Reddit posts *)
(* are stored and nothing else.  A new topic may collect stored articles,  *)
(* which brings dropped ones back; a dropped one may be forgotten.         *)
(***************************************************************************)
CONSTANTS Urls, Topics, Seeded, Reddit

VARIABLES
    row,        \* pipeline_status of the article, "none" before its INSERT
    stored,     \* article_topic_matches
    topics,     \* the topics that exist
    sent        \* the matches published to matched-articles

News == Urls \ Reddit

Init ==
    /\ row = [u \in Urls |-> "none"]
    /\ stored = {}
    /\ topics = Seeded
    /\ sent = {}

Keep(u, T) ==
    /\ row[u] = "none"
    /\ T # {} /\ T \subseteq topics
    /\ row' = [row EXCEPT ![u] = "passed_dedup"]
    /\ stored' = stored \cup ({u} \X T)
    /\ UNCHANGED <<topics, sent>>

Drop(u) ==
    /\ row[u] = "none"
    /\ row' = [row EXCEPT ![u] = "dropped"]
    /\ UNCHANGED <<stored, topics, sent>>

Summarise(u) ==
    /\ u \in News
    /\ row[u] = "passed_dedup"
    /\ row' = [row EXCEPT ![u] = "processed"]
    /\ UNCHANGED <<stored, topics, sent>>

Send(S) ==
    /\ \A p \in S : /\ row[p[1]] = "processed"
                    /\ p[2] \in topics => p \in stored
    /\ sent' = sent \cup S
    /\ UNCHANGED <<row, stored, topics>>

DeleteTopic(t) ==
    /\ topics' = topics \ {t}
    /\ stored' = {p \in stored : p[2] # t}
    /\ UNCHANGED <<row, sent>>

CreateTopic(t) ==
    /\ t \notin topics
    /\ topics' = topics \cup {t}
    /\ UNCHANGED <<row, stored, sent>>

Collect(S, t) ==
    /\ t \in topics
    /\ \A u \in S : row[u] # "none"
    /\ row' = [u \in Urls |-> IF u \in S /\ row[u] = "dropped" THEN "processed" ELSE row[u]]
    /\ stored' = stored \cup (S \X {t})
    /\ UNCHANGED <<topics, sent>>

Forget(u) ==
    /\ row[u] = "dropped"
    /\ row' = [row EXCEPT ![u] = "none"]
    /\ UNCHANGED <<stored, topics, sent>>

Next ==
    \/ \E u \in Urls : \/ Drop(u) \/ Summarise(u) \/ Forget(u)
                      \/ \E T \in SUBSET Topics : Keep(u, T)
    \/ \E S \in SUBSET (Urls \X Topics) : Send(S)
    \/ \E t \in Topics : \/ CreateTopic(t) \/ DeleteTopic(t)
                        \/ \E S \in SUBSET Urls : Collect(S, t)

Spec == Init /\ [][Next]_<<row, stored, topics, sent>>
=============================================================================
