------------------------- MODULE InstalledCertificates -------------------------
(***************************************************************************)
(* The certificates installed on an OCPP 2.0.1 station and the copy the    *)
(* CSMS keeps of their hashes: the Certificates API and the handlers of    *)
(* the answers.                                                            *)
(*                                                                         *)
(* InstallCertificate and DeleteCertificate change the station only; the   *)
(* copy follows the answers to GetInstalledCertificateIds, which may ask   *)
(* for some types: the rows of the types in an answer are deleted, then    *)
(* those of the answer are created.  Nothing makes a row unique.           *)
(***************************************************************************)
EXTENDS Naturals

CONSTANTS
  Certificates,
  CertificateType, \* type of each of them
  MaxIdCalls,      \* bound on the GetInstalledCertificateIds calls made
  None

Types == {CertificateType[c] : c \in Certificates}
IdCalls == 1..MaxIdCalls

VARIABLES
  hashRows,     \* per certificate: its rows of InstalledCertificate
  idCall,       \* the GetInstalledCertificateIds calls, and how far they are handled
  certificates, \* the certificates on the station
  unsure        \* history: types the copy may be wrong about (see the actions)

certificateVars == <<hashRows, idCall, certificates, unsure>>

IdCall == [types : SUBSET Types, found : SUBSET Certificates,
           pc : {"sent", "answered", "deleted", "over"}]

TypeOK ==
  /\ hashRows \in [Certificates -> Nat]
  /\ idCall \in [IdCalls -> IdCall \union {None}]
  /\ certificates \subseteq Certificates
  /\ unsure \subseteq Types

Init ==
  /\ hashRows = [c \in Certificates |-> 0]
  /\ idCall = [q \in IdCalls |-> None]
  /\ certificates = {}
  /\ unsure = {}

At(q, pc) == idCall[q] # None /\ idCall[q].pc = pc
NextIdCall(q) == idCall[q] = None /\ \A b \in IdCalls : b < q => idCall[b] # None

TypesOf(found) == {CertificateType[c] : c \in found}

(* The types in the answer are being written. *)
Writing(q, t) == (At(q, "answered") \/ At(q, "deleted")) /\ t \in TypesOf(idCall[q].found)

CallOver == [types |-> {}, found |-> {}, pc |-> "over"]

-----------------------------------------------------------------------------
(* The station installs a certificate or deletes one; _handleInstallCertificate *)
(* and _handleDeleteCertificate log its answer.                            *)
Install(c) ==
  /\ c \notin certificates
  /\ certificates' = certificates \union {c}
  /\ unsure' = unsure \union {CertificateType[c]}
  /\ UNCHANGED <<hashRows, idCall>>

Delete(c) ==
  /\ c \in certificates
  /\ certificates' = certificates \ {c}
  /\ unsure' = unsure \union {CertificateType[c]}
  /\ UNCHANGED <<hashRows, idCall>>

(* getInstalledCertificateIds, of some types or of all. *)
SendIdCall(q, types) ==
  /\ NextIdCall(q)
  /\ idCall' = [idCall EXCEPT ![q] = [types |-> types, found |-> {}, pc |-> "sent"]]
  /\ UNCHANGED <<hashRows, certificates, unsure>>

(* The station answers with what it has of these types.  Handled alone,    *)
(* the answer sets the rows of the types in it right.                      *)
AnswerIdCall(q) ==
  /\ At(q, "sent")
  /\ LET found == {c \in certificates : CertificateType[c] \in idCall[q].types}
     IN  /\ found # {}
         /\ idCall' = [idCall EXCEPT ![q].found = found, ![q].pc = "answered"]
         /\ unsure' = (unsure \ TypesOf(found))
                      \union {t \in TypesOf(found) : \E b \in IdCalls : Writing(b, t)}
  /\ UNCHANGED <<hashRows, certificates>>

(* It has none, or the answer is lost: there is no list of hashes to write, *)
(* and rows of these types stay.                                           *)
NoHashes(q) ==
  /\ At(q, "sent")
  /\ idCall' = [idCall EXCEPT ![q] = CallOver]
  /\ UNCHANGED <<hashRows, certificates, unsure>>

-----------------------------------------------------------------------------
(* _handleGetInstalledCertificateIds. *)

\* Mutant: the rows of the certificates in the answer are deleted.
DeleteListed(q) ==
  /\ At(q, "answered")
  /\ hashRows' = [c \in Certificates |-> IF c \in idCall[q].found THEN 0 ELSE hashRows[c]]
  /\ idCall' = [idCall EXCEPT ![q].pc = "deleted"]
  /\ UNCHANGED <<certificates, unsure>>

(* deleteExistingMatchingCertificateHashes: the rows of the types in the   *)
(* answer ...                                                              *)
DeleteHashes(q) ==
  /\ At(q, "answered")
  /\ hashRows' = [c \in Certificates |->
                    IF CertificateType[c] \in TypesOf(idCall[q].found) THEN 0 ELSE hashRows[c]]
  /\ idCall' = [idCall EXCEPT ![q].pc = "deleted"]
  /\ UNCHANGED <<certificates, unsure>>

(* ... an error of which is logged, and the handler goes on. *)
DeleteFails(q) ==
  /\ At(q, "answered")
  /\ idCall' = [idCall EXCEPT ![q].pc = "deleted"]
  /\ unsure' = unsure \union TypesOf(idCall[q].found)
  /\ UNCHANGED <<hashRows, certificates>>

(* bulkCreate of a row for each certificate in the answer, which may fail. *)
SaveHashes(q) ==
  /\ At(q, "deleted")
  /\ hashRows' = [c \in Certificates |-> hashRows[c] + IF c \in idCall[q].found THEN 1 ELSE 0]
  /\ idCall' = [idCall EXCEPT ![q] = CallOver]
  /\ UNCHANGED <<certificates, unsure>>

SaveFails(q) ==
  /\ At(q, "deleted")
  /\ idCall' = [idCall EXCEPT ![q] = CallOver]
  /\ unsure' = unsure \union TypesOf(idCall[q].found)
  /\ UNCHANGED <<hashRows, certificates>>

-----------------------------------------------------------------------------
Next ==
  \/ \E c \in Certificates : Install(c) \/ Delete(c)
  \/ \E q \in IdCalls :
       \/ \E types \in SUBSET Types \ {{}} : SendIdCall(q, types)
       \/ AnswerIdCall(q) \/ NoHashes(q)
       \/ DeleteHashes(q) \/ DeleteFails(q) \/ SaveHashes(q) \/ SaveFails(q)

Spec == Init /\ [][Next]_certificateVars

-----------------------------------------------------------------------------
(* Properties. *)

(* Once the answers are handled there is one row for each certificate on   *)
(* the station and none for any other, of every type whose certificates    *)
(* have not changed since an answer had them that no other answer with the *)
(* type met and nothing failed for.  A type whose last certificate is      *)
(* deleted never is in an answer again.                                    *)
CertificatesKnown ==
  \A t \in Types \ unsure :
    (\A q \in IdCalls : ~Writing(q, t)) =>
      \A c \in Certificates : CertificateType[c] = t =>
        hashRows[c] = IF c \in certificates THEN 1 ELSE 0
===============================================================================
