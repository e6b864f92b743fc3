--------------------------- MODULE AlertPipeline ---------------------------
(***************************************************************************)
(* The pipeline of README.md (Architecture): payloads are normalised       *)
(* (Normalization), pass deduplication (Intake) and are correlated         *)
(* (Correlation).  The properties here relate the three.                   *)
(***************************************************************************)
EXTENDS Intake

CONSTANTS
    None, Addresses, Pieces,                         \* see Normalization
    Enabled, Minute, Similarity, Threshold,          \* see Correlation
    Raw                                              \* the text of each payload

N == INSTANCE Normalization

Normalised == [i \in Payloads |-> N!Normalise(Raw[i])]

C == INSTANCE Correlation WITH Alert <- Normalised

Rules == {"time_based", "asset_based", "user_based", "network_based", "rule_based",
          "semantic_based"}

\* The texts of an alert's fingerprint.
Texts(i) == {Normalised[i].rule_id, Normalised[i].source_ip, Normalised[i].host,
             Normalised[i].user}
AllTexts == UNION {Texts(i) : i \in Payloads}

\* Deduplication goes by the fingerprint that the alert of a payload computes of itself.
\* A text is at least one piece, and its pieces make it up again.
\* The similarity of two embeddings is their scalar product.
ASSUME PipelineAssumption ==
    /\ Finger = [i \in Payloads |-> N!Fingerprint(Normalised[i])]
    /\ \A v \in AllTexts : Pieces[v] \in Seq(STRING) /\ Pieces[v] # <<>>
    /\ \A v, w \in AllTexts : Pieces[v] = Pieces[w] => v = w
    /\ Enabled \subseteq Rules
    /\ \A a, b \in Payloads : Similarity[a][b] = Similarity[b][a]

-----------------------------------------------------------------------------
(* Properties *)

\* The rules that name an entity of the fingerprint.
EntityRules == Enabled \cap {"asset_based", "user_based", "network_based"}

\* No text of the alert holds the separator.
Plain(i) == \A v \in Texts(i) : Len(Pieces[v]) = 1

\* Deduplication takes no asset, user or network group away: for an alert that is dropped
\* and holds no separator itself, each of those rules has an alert with the same key that
\* was let through, whatever texts with separators the other alerts are made of.
NoGroupLost ==
    \A c \in Calls : \A x \in call[c].dropped : Plain(x.item) =>
        \A rule \in EntityRules :
            \E d \in Calls : \E i \in Kept(d) : C!Key(rule, i) = C!Key(rule, x.item)

\* Over all the batches an engine is given, whatever is dropped between them, two alerts
\* share a semantic group only over a chain of alerts of that group, each within the
\* threshold of the next: a dropped duplicate breaks a chain but never invents one.
SemanticGroupsAreChains ==
    LET groups == C!Groups(<<>>, correlated) IN
    \A key \in DOMAIN groups : key[1] = "semantic" =>
        \A part \in (SUBSET groups[key]) \ {{}, groups[key]} :
            \E a \in part, b \in groups[key] \ part : Similarity[a][b] >= Threshold
=============================================================================
