---------------------------- MODULE TallyDecryption ----------------------------
(***************************************************************************)
(* decryption.py, decryption_share.py and decrypt_with_shares.py: how a    *)
(* tally or a ballot is decrypted selection by selection with the shares   *)
(* of guardians, those of the missing ones put together from parts.        *)
(*                                                                         *)
(* A ciphertext is its pad, which is made of the nonces that went into it, *)
(* and the amount it encrypts.  A share is a pad raised to the keys of     *)
(* some guardians: to its own key by one who is present, to coordinates of *)
(* the missing guardian's key by several others.                           *)
(***************************************************************************)
EXTENDS BallotEncryption

CONSTANT Holders  \* the guardians whose public keys make up the joint key

\* What both a CiphertextTally and a SubmittedBallot are to the decryption.
Contest(id, hash, selections) == [id |-> id, hash |-> hash, selections |-> selections]

\* CiphertextContest of a ballot's contest, placeholders included.
CiphertextContest(c) ==
  Contest(c.id, c.hash,
          Mapped(LAMBDA s : [id |-> s.id, pad |-> s.under, amount |-> s.vote], c.selections))

ById(list) == [id \in {x.id : x \in ToSet(list)} |-> WithId(id, list)]

-----------------------------------------------------------------------------
(* Shares. *)

\* compute_decryption_share_for_selection.
ShareForSelection(g, s) == [guardian |-> g, by |-> {g}, pads |-> {s.pad}]

\* compute_decryption_share_for_contest: the selections by id.
ShareForContest(g, c) ==
  [hash |-> c.hash,
   selections |-> LET found == ById(c.selections)
                  IN  [id \in DOMAIN found |-> ShareForSelection(g, found[id])]]

\* compute_decryption_share.
ComputeDecryptionShare(g, contests) ==
  LET found == ById(contests) IN [id \in DOMAIN found |-> ShareForContest(g, found[id])]

\* compute_decryption_share_for_ballot.
ComputeDecryptionShareForBallot(g, ballot) ==
  ComputeDecryptionShare(g, Mapped(CiphertextContest, ballot.contests))

\* compute_compensated_decryption_share_for_selection.
CompensatedForSelection(a, m, s) == [guardian |-> a, missing |-> m, pad |-> s.pad]

\* compute_compensated_decryption_share_for_contest.
CompensatedForContest(a, m, c) ==
  [hash |-> c.hash,
   selections |-> LET found == ById(c.selections)
                  IN  [id \in DOMAIN found |-> CompensatedForSelection(a, m, found[id])]]

\* compute_compensated_decryption_share.
ComputeCompensatedDecryptionShare(a, m, contests) ==
  LET found == ById(contests) IN [id \in DOMAIN found |-> CompensatedForContest(a, m, found[id])]

\* compute_compensated_decryption_share_for_ballot.
ComputeCompensatedDecryptionShareForBallot(a, m, ballot) ==
  ComputeCompensatedDecryptionShare(a, m, Mapped(CiphertextContest, ballot.contests))

\* reconstruct_decryption_share from the parts of those in DOMAIN parts: the
\* placeholder selections of a ballot, as any other, are asked of every part.
ReconstructDecryptionShare(m, contests, parts) ==
  LET found == ById(contests)
      Selection(c, id) ==
        [guardian |-> m, by |-> DOMAIN parts,
         pads |-> {parts[a][c.id].selections[id].pad : a \in DOMAIN parts}]
      OfContest(c) ==
        [hash |-> c.hash,
         selections |-> [id \in {s.id : s \in ToSet(c.selections)} |-> Selection(c, id)]]
  IN  [id \in DOMAIN found |-> OfContest(found[id])]

\* reconstruct_decryption_share_for_ballot.
ReconstructDecryptionShareForBallot(m, ballot, parts) ==
  ReconstructDecryptionShare(m, Mapped(CiphertextContest, ballot.contests), parts)

-----------------------------------------------------------------------------
(* Decryption. *)

\* Mutant of GetSharesForSelection: the guardians that are present are enough.
PresentShares(id, shares) ==
  LET Of(g) == {share \in {shares[g][c].selections[id] :
                             c \in {c \in DOMAIN shares[g] : id \in DOMAIN shares[g][c].selections}} :
                  share.by = {g}}
  IN  [g \in {h \in DOMAIN shares : Of(h) # {}} |-> CHOOSE share \in Of(g) : TRUE]

\* get_shares_for_selection looks for the selection id in all contests of a share.
GetSharesForSelection(id, shares) ==
  LET Of(g) == {shares[g][c].selections[id] :
                  c \in {c \in DOMAIN shares[g] : id \in DOMAIN shares[g][c].selections}}
  IN  [g \in {h \in DOMAIN shares : Of(h) # {}} |-> CHOOSE share \in Of(g) : TRUE]

\* decrypt_selection_with_decryption_shares: without checking a proof it divides by
\* all shares; what remains has a logarithm that is found when they are the pad
\* raised to every key once, the missing ones by all who are present.
DecryptSelectionWithShares(s, found) ==
  LET present == {g \in DOMAIN found : found[g].by = {g}}
  IN  IF /\ DOMAIN found = Holders
         /\ \A g \in Holders : found[g].pads = {s.pad} /\ found[g].by \in {{g}, present}
      THEN [id |-> s.id, tally |-> s.amount] ELSE Refused

\* decrypt_contest_with_decryption_shares: selections that the manifest does not
\* list, such as placeholders, are left out.
DecryptContestWithShares(c, shares, description) ==
  LET listed == Sifted(c.selections, {s \in ToSet(c.selections) : Indices(s.id, description.selections) # {}})
      opened == Mapped(LAMBDA s : DecryptSelectionWithShares(s, GetSharesForSelection(s.id, shares)),
                       listed)
  IN  IF Refused \in ToSet(opened) THEN Refused ELSE [id |-> c.id, selections |-> opened]

\* decrypt_tally: contests that the manifest does not have are left out.
DecryptTally(contests, shares, m) ==
  LET known == Sifted(contests, {c \in ToSet(contests) : Indices(c.id, m.contests) # {}})
      opened == Mapped(LAMBDA c : DecryptContestWithShares(c, shares, WithId(c.id, m.contests)), known)
  IN  IF Refused \in ToSet(opened) THEN Refused ELSE [contests |-> opened]

\* decrypt_ballot.
DecryptBallot(ballot, shares, m) == DecryptTally(Mapped(CiphertextContest, ballot.contests), shares, m)
=============================================================================
