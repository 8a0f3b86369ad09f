--------------------------- MODULE EventIntegrity ---------------------------
(***************************************************************************)
(* How the off-chain payload of one event is bound to the chain.           *)
(*                                                                         *)
(* The collector parses the record's XML (deserializer.rs) into an         *)
(* EventWithData.  The chain receives the ScrubbedEvent, whose             *)
(* offchain_hash is hex(EventData::hash()) (model/events/mod.rs).  The     *)
(* off-chain store receives the Data sequence itself.  A reader later      *)
(* checks a stored copy with StoredEvent::validate, which re-hashes it and *)
(* compares with the hash that get_event reads from the chain.             *)
(*                                                                         *)
(* Strings are sequences over the small alphabet Chars.  Every character   *)
(* is one byte, so as_bytes() is the sequence itself.  sha256 is taken to  *)
(* be collision-free and hex::encode is injective.  Digest(b) therefore    *)
(* tells byte strings apart exactly, and any collision the model finds     *)
(* comes from the bytes that are fed to the hash.                          *)
(***************************************************************************)
EXTENDS Naturals, Sequences, SequencesExt

CONSTANTS
    Chars,      \* the alphabet of names and values
    MaxLen,     \* longest name or value
    MaxFields,  \* longest Data sequence
    None        \* Option::None

Text == SeqOf(Chars, MaxLen)
OptText == Text \cup {None}

\* A Data element of the record's XML.  `name` is the Name attribute, which
\* may be empty; `text` is the element's first text child, which roxmltree
\* never returns empty.  Elements of other tags are "other".
XmlChild == [tag : {"Data"}, name : OptText, text : (Text \ {<<>>}) \cup {None}]
            \cup [tag : {"other"}]

\* A record's XML: whether System and all its required children are there,
\* and the children of the EventData element, or None when it is absent.
XmlRecord == [system : BOOLEAN, eventData : SeqOf(XmlChild, MaxFields) \cup {None}]

Data == [name : OptText, value : OptText]
EventData == SeqOf(Data, MaxFields)

VARIABLES
    collected,   \* the event_data the agent parsed, or None
    onChain,     \* offchain_hash of the ScrubbedEvent on chain, or None
    stored,      \* the event_data the off-chain store holds, or None
    validation   \* the last StoredEvent::validate outcome

vars == <<collected, onChain, stored, validation>>

----------------------------------------------------------------------------
(* Conversions                                                             *)

\* Data::from_xml: the Name attribute and the text, both optional.
DataFromXml(n) == [name |-> n.name, value |-> n.text]

\* EventData::from_xml: the Data children in document order.
EventDataFromXml(children) ==
    LET data == SelectSeq(children, LAMBDA n : n.tag = "Data")
    IN  [i \in 1..Len(data) |-> DataFromXml(data[i])]

\* EventWithData::from_xml: the event data of a record whose System parses;
\* a missing EventData element gives an empty sequence.
EventDataOf(r) ==
    IF r.eventData = None THEN <<>> ELSE EventDataFromXml(r.eventData)

\* sha256 followed by hex::encode, collision-free.
Digest(bytes) == [sha256 |-> bytes]

\* `if let Some(x)` feeds x.as_bytes(); None feeds nothing.
Bytes(opt) == IF opt = None THEN <<>> ELSE opt

\* EventData::hash: every name, then every value, into one digest with no
\* separator or length between them.
Hash(ed) == Digest(FoldLeft(LAMBDA acc, d : acc \o Bytes(d.name) \o Bytes(d.value),
                            <<>>, ed))

\* From<EventWithData> for ScrubbedEvent: the on-chain offchain_hash.
OffchainHash(ed) == Hash(ed)

----------------------------------------------------------------------------
(* Steps                                                                   *)

Init ==
    /\ collected = None
    /\ onChain = None
    /\ stored = None
    /\ validation = "none"

\* The subscription callback delivers a record; deserialize_event parses it.
\* A record without a complete System is an Err, logged and dropped.
Collect(r) ==
    /\ collected = None
    /\ r.system
    /\ collected' = EventDataOf(r)
    /\ UNCHANGED <<onChain, stored, validation>>

\* The blockchain submitter stores the ScrubbedEvent of the collected event.
ChainSubmit ==
    /\ collected /= None
    /\ onChain = None
    /\ onChain' = OffchainHash(collected)
    /\ UNCHANGED <<collected, stored, validation>>

\* The off-chain submission after chain success: store_event posts the
\* Data sequence.  Its verifier compares the stored copy for equality.
OffChainSubmit ==
    /\ onChain /= None
    /\ stored = None
    /\ stored' = collected
    /\ UNCHANGED <<collected, onChain, validation>>

\* A faulty off-chain node later serves other data for the event.  An
\* earlier validation outcome was about the copy it replaces.
Tamper(d) ==
    /\ stored \notin {None, d}
    /\ stored' = d
    /\ validation' = "none"
    /\ UNCHANGED <<collected, onChain>>

\* StoredEvent::validate: hash the stored copy, read the ScrubbedEvent with
\* get_event (EventNotFound is None, BlockchainEventNotFound), compare.
Validate ==
    /\ stored /= None
    /\ validation' = IF onChain = None THEN "not_found"
                     ELSE IF OffchainHash(stored) /= onChain THEN "mismatch"
                     ELSE "ok"
    /\ UNCHANGED <<collected, onChain, stored>>

\* get_event fails before validate compares anything: no healthy chain peer
\* (NoClientsAvailable), a transport error, an ABCI code other than
\* EventNotFound, or a body that is not JSON.
ValidateFails ==
    /\ stored /= None
    /\ validation' = "error"
    /\ UNCHANGED <<collected, onChain, stored>>

Next ==
    \/ \E r \in XmlRecord : Collect(r)
    \/ ChainSubmit
    \/ OffChainSubmit
    \/ \E d \in EventData : Tamper(d)
    \/ Validate
    \/ ValidateFails

Spec == Init /\ [][Next]_vars

----------------------------------------------------------------------------
(* Properties                                                              *)

\* StoredEvent::validate accepts a stored Data sequence only when it is the
\* one the agent parsed and hashed into the ScrubbedEvent (spec.md: "the hash
\* binds it"): a faulty off-chain node cannot substitute other data.
ValidatedDataIsGenuine ==
    validation = "ok" => stored = collected

=============================================================================
