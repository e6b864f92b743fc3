--------------------------- MODULE Normalization ---------------------------
(***************************************************************************)
(* normalize_wazuh_alert (src/normalization/normalizer.py) and the         *)
(* fingerprint of a NormalizedAlert, on payloads whose text is abstracted  *)
(* to the words and rule groups that the function looks for.               *)
(***************************************************************************)
EXTENDS Integers, Sequences, FiniteSets

CONSTANTS
    None,        \* an absent or empty field
    Addresses,   \* field values that are IP addresses
    Pieces       \* the pieces between the separators of a field's text, the empty one's too

\* The fields in which an address or a user is looked for, in this order.
SourceFields == <<"srcip", "src_ip", "source_ip", "srcaddress">>
DestinationFields == <<"dstip", "dst_ip", "dest_ip", "destination_ip", "dstaddress">>
UserFields == <<"user", "username", "srcuser", "dstuser">>

\* The first rung whose rule group or description word an alert has names its type.
Ladder ==
    <<[groups |-> {"authentication", "ssh"}, words |-> {}, type |-> "authentication"],
      [groups |-> {"malware"}, words |-> {"virus"}, type |-> "malware"],
      [groups |-> {}, words |-> {"privilege", "escalation"}, type |-> "privilege_escalation"],
      [groups |-> {"remote"}, words |-> {"lateral"}, type |-> "lateral_movement"],
      [groups |-> {"bf"}, words |-> {"brute"}, type |-> "brute_force"],
      [groups |-> {"persistence"}, words |-> {"persist"}, type |-> "persistence"],
      [groups |-> {"exfiltration"}, words |-> {"exfil"}, type |-> "exfiltration"],
      [groups |-> {"discovery"}, words |-> {"recon"}, type |-> "discovery"]>>

\* The least index of a sequence with a property, 0 when there is none.
FirstIndex(s, Has(_)) ==
    IF \E n \in DOMAIN s : Has(s[n])
    THEN CHOOSE n \in DOMAIN s : Has(s[n]) /\ \A m \in 1..(n - 1) : ~Has(s[m])
    ELSE 0

EventType(rule) ==
    LET Fits(rung) == rung.groups \cap rule.groups # {} \/ rung.words \cap rule.words # {}
        n == FirstIndex(Ladder, Fits)
    IN  IF n = 0 THEN "unknown" ELSE Ladder[n].type

\* A field of the alert's data, None when it is not there.
Field(fields, name) == IF name \in DOMAIN fields THEN fields[name] ELSE None

\* data.get(name) or predecoder.get(name)
Value(raw, name) ==
    IF Field(raw.data, name) # None THEN Field(raw.data, name) ELSE Field(raw.predecoder, name)

\* The first field that holds an address, or else whatever srcip holds.
SourceIp(raw) ==
    LET n == FirstIndex(SourceFields, LAMBDA name : Value(raw, name) \in Addresses)
    IN  Value(raw, IF n = 0 THEN "srcip" ELSE SourceFields[n])

DestinationIp(raw) ==
    LET n == FirstIndex(DestinationFields, LAMBDA name : Field(raw.data, name) \in Addresses)
    IN  IF n = 0 THEN None ELSE Field(raw.data, DestinationFields[n])

User(raw) ==
    LET n == FirstIndex(UserFields, LAMBDA name : Value(raw, name) # None)
    IN  IF n = 0 THEN None ELSE Value(raw, UserFields[n])

\* (variant without the host)
FingerprintWithoutHost(alert) ==
    Pieces[alert.rule_id] \o Pieces[alert.source_ip] \o Pieces[alert.user]
\* generate_fingerprint joins four texts with a separator that they may hold themselves,
\* so that only the pieces between separators are left of them, not where a field ends.
\* The timestamp and the type are not part of it.  The hash is taken for the text.
Fingerprint(alert) ==
    Pieces[alert.rule_id] \o Pieces[alert.source_ip] \o Pieces[alert.host] \o Pieces[alert.user]

\* The host is the agent's name, also an empty one; without the key it is the hostname.
\* The wall-clock time is the payload's; zone is None when the timestamp names none.
Normalise(raw) ==
    [rule_id |-> raw.rule.id, event_type |-> EventType(raw.rule),
     host |-> IF "name" \in DOMAIN raw.agent THEN raw.agent.name ELSE Field(raw.data, "hostname"),
     source_ip |-> SourceIp(raw), destination_ip |-> DestinationIp(raw), user |-> User(raw),
     wall |-> raw.wall, zone |-> raw.zone]
=============================================================================
