--------------------------- MODULE VoiceConsents ---------------------------
(* Voice consents: the row made on first touch, its updates by concurrent   *)
(* requests, and the gates of transcription and scoring that read it.       *)
EXTENDS Integers

CONSTANTS Devices  \* clients of one learner, each with one request at a time

CONSENT_FIELDS == {"transcription", "scoring", "b2b_share", "model_training"}
ProtectiveDefaults == [f \in CONSENT_FIELDS |-> f = "transcription"]

VARIABLES consent,  \* the voice_consents row, or NoRow
          editing,  \* by device: the changes of its PUT and the row it has loaded
          upload    \* by device: its /transcribe request

consentVars == <<consent, editing, upload>>

NoRow == [f \in {} |-> FALSE]
NoEdit == [pc |-> "none", changes |-> NoRow, loaded |-> NoRow]

ConsentInit == /\ consent = NoRow
               /\ editing = [d \in Devices |-> NoEdit]
               /\ upload = [d \in Devices |-> "none"]

\* INSERT ... ON CONFLICT DO NOTHING, committed, and the row read back.
FirstTouched(row) == IF row = NoRow THEN ProtectiveDefaults ELSE row

\* GET /me/voice-consent.
GetConsent == /\ consent' = FirstTouched(consent)
              /\ UNCHANGED <<editing, upload>>

\* PUT: get_or_create, and the fields set on the loaded object.
LoadConsent(d, changes) ==
    /\ editing[d].pc = "none"
    /\ consent' = FirstTouched(consent)
    /\ editing' = [editing EXCEPT ![d] = [pc |-> "loaded", changes |-> changes, loaded |-> consent']]
    /\ UNCHANGED upload

\* An UPDATE of the whole row from the loaded object.
StoredWhole(row, e) == [f \in CONSENT_FIELDS |-> IF f \in DOMAIN e.changes THEN e.changes[f]
                                                 ELSE e.loaded[f]]

\* The UPDATE names the fields that differ from the loaded object, and no other.
Stored(row, e) == [f \in CONSENT_FIELDS |->
                     IF f \in DOMAIN e.changes /\ e.changes[f] # e.loaded[f]
                     THEN e.changes[f] ELSE row[f]]

SaveConsent(d) ==
    /\ editing[d].pc = "loaded"
    /\ consent' = Stored(consent, editing[d])
    /\ editing' = [editing EXCEPT ![d] = NoEdit]
    /\ UNCHANGED upload

\* An unknown field, or a failed commit: nothing is stored.
UpdateFails(d) == /\ editing[d].pc = "loaded"
                  /\ editing' = [editing EXCEPT ![d] = NoEdit]
                  /\ UNCHANGED <<consent, upload>>

\* may_transcribe and may_score; a missing record means the defaults.
TranscriptionAndScoring == [f \in {"transcription", "scoring"} |-> FirstTouched(consent)[f]]

\* The gate is passed before the body of the upload is parsed.
Transcribe(d) == /\ upload[d] = "none"
                 /\ upload' = [upload EXCEPT ![d] =
                        IF TranscriptionAndScoring["transcription"] THEN "read" ELSE "refused"]
                 /\ UNCHANGED <<consent, editing>>

\* Silence, too large, or transcribed; the client tries again later.
TranscribeReturns(d) == /\ upload[d] # "none"
                        /\ upload' = [upload EXCEPT ![d] = "none"]
                        /\ UNCHANGED <<consent, editing>>

Changes == UNION {[fs -> BOOLEAN] : fs \in {{"transcription"}, {"scoring"},
                                            {"transcription", "scoring"}}}
ConsentNext == \/ GetConsent
               \/ \E d \in Devices : \/ \E c \in Changes : LoadConsent(d, c)
                                     \/ SaveConsent(d) \/ UpdateFails(d)
                                     \/ Transcribe(d) \/ TranscribeReturns(d)
ConsentSpec == ConsentInit /\ [][ConsentNext]_consentVars

-----------------------------------------------------------------------------
(* A revocation stands until a request that grants commits: neither a first *)
(* touch nor an update of another field from an older copy of the row       *)
(* brings a consent back, or takes one away (voice_consent/service.py).     *)
OnlyAskedForChanges ==
    [][\A f \in CONSENT_FIELDS : consent # NoRow /\ consent'[f] # consent[f] =>
          \E d \in Devices : /\ editing[d].pc = "loaded" /\ editing'[d] = NoEdit
                             /\ f \in DOMAIN editing[d].changes
                             /\ editing[d].changes[f] = consent'[f]]_consentVars
=============================================================================
