----------------------------- MODULE InputPolicy -----------------------------
(***************************************************************************)
(* Which of a checkout's files Graphify may see, and how an input is named: *)
(* the path rules (privacy.classify_path, is_denied), the ignore files     *)
(* (privacy.RepositoryIgnores), the secret shapes and their reviewed       *)
(* exceptions (secrets_scan) and the two digests of a projection           *)
(* (staging._source_digest, _projection_digest).                           *)
(*                                                                         *)
(* A path is a number, in the order of its spelling, and stands for one    *)
(* kind of name; a file's bytes are one of Contents.  A digest is what it  *)
(* is a digest of.                                                         *)
(***************************************************************************)
EXTENDS FiniteSets, Integers, Functions

CONSTANTS Ordinary,   \* names no rule is about
          Sensitive,  \* source names with token, secret, ... in them
          Denied,     \* names a rule that counts for identity denies
          Neutral,    \* names in node_modules, dist, ... : denied, not counted
          None

Paths == Ordinary \cup Sensitive \cup Denied \cup Neutral

ASSUME PolicyAssumption ==
         /\ Paths \subseteq Nat /\ IsFiniteSet(Paths)
         /\ Ordinary \cap (Sensitive \cup Denied \cup Neutral) = {}
         /\ Sensitive \cap (Denied \cup Neutral) = {}
         /\ Denied \cap Neutral = {}

\* flagged has a shape a reviewer may accept, key one that nobody may.
Shapes == {"flagged", "key"}
Texts == {"text", "other_text"} \cup Shapes
Contents == Texts \cup {"absent", "symlink", "fifo", "binary"}

\* What a projection decides of path p with content c: a rule, or that the
\* path is not there.
Decision(p, c, ignored) ==
  IF      c = "absent"     THEN "none"
  ELSE IF p \in Denied     THEN "deny"
  ELSE IF p \in Neutral    THEN "deny_neutral"
  ELSE IF c = "symlink"    THEN "deny_symlink"
  ELSE IF p \in ignored    THEN "deny_ignored"
  ELSE IF c = "fifo"       THEN "deny_non_regular"
  ELSE IF c = "binary"     THEN "deny_binary"
  ELSE IF p \in Sensitive  THEN "scan"
  ELSE                          "allow"

Safe == {"scan", "allow"}
Counts(decision) == decision \notin {"none", "deny_neutral"}

\* The paths of a projection of schema 2, and those schema 1 and scan-secrets
\* list: is_denied has no exception for source names, and nobody looks into a
\* file for NUL bytes.
Projected(content, ignored) ==
  {p \in Paths : Decision(p, content[p], ignored) \in Safe}
Listed(content, ignored) ==
  {p \in Ordinary \ ignored : content[p] \in Texts \cup {"binary"}}

\* The findings in the files of a projection (a function from its paths to
\* their bytes); an exception names a finding.
Findings(files) == {<<p, files[p]>> : p \in {q \in DOMAIN files : files[q] \in Shapes}}
Exceptions == Paths \X Shapes

\* load_secret_exceptions refuses a list with an entry that names no finding,
\* or one that nobody may accept.
ValidExceptions(exceptions, findings) ==
  \A e \in exceptions : e \in findings /\ e[2] = "flagged"
Accepts(exceptions, findings) ==
  ValidExceptions(exceptions, findings) /\ findings \subseteq exceptions

\* An approval is bound to a path and its bytes.  The file of approvals can be
\* missing (None) or cut short; each entry has to name a file of the projection.
Approvals == Paths \X Texts
Torn == {<<0, "torn">>}
ValidApprovals(approvals, files) ==
  approvals # None => \A a \in approvals : a[1] \in DOMAIN files /\ files[a[1]] = a[2]

SourceDigest(files) == files

ProjectionDigest(decisions, ignored, exceptions, approvals, files) ==
  [ decisions  |-> Restrict(decisions, {p \in DOMAIN decisions : Counts(decisions[p])}),
    ignored    |-> ignored,
    exceptions |-> exceptions,
    approvals  |-> approvals,
    source     |-> SourceDigest(files) ]

\* The projection of a checkout that holds still; no digest when it is refused.
Projection(content, ignored, exceptions, approvals) ==
  LET files == Restrict(content, Projected(content, ignored))
      decisions == [p \in Paths |-> Decision(p, content[p], ignored)]
  IN IF Accepts(exceptions, Findings(files)) /\ ValidApprovals(approvals, files)
     THEN ProjectionDigest(decisions, ignored, exceptions, approvals, files)
     ELSE None
=============================================================================
