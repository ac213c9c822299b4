------------------------------- MODULE Admin -------------------------------
(***************************************************************************)
(* The administrative part of a history file: the flags, the users, the    *)
(* description, the checksum, and the MRs and comments of a delta, under   *)
(* admin (which also creates the file) and cdc.  Every command reads the   *)
(* header into memory, changes it there and writes the whole file anew, so *)
(* what matters is as much the change as the way to the file and back.  A  *)
(* command that reports an error before it writes changes nothing; such    *)
(* commands are not steps.                                                 *)
(*                                                                         *)
(* The argument of a flag is a sequence of tokens: releases, keyword       *)
(* letters, names and separators.  The z flag, which no command sets, is   *)
(* left out, and so are failing reads and writes; binary files may be      *)
(* created (CSSC_BINARY_SUPPORT is not "disabled").                        *)
(***************************************************************************)
EXTENDS Integers, Sequences, SequencesExt

CONSTANTS
  Releases,      \* the releases, as admin and the file spell them
  Letters,       \* the letters, as in a keyword
  Keywords,      \* the letters that are keywords
  Commands,      \* the options that admin is given
  Creations,     \* the initial body, MRs and comments that admin -n is given
  Changes,       \* the MRs and comments that cdc is given
  SumModulus,    \* 2^16 in the program: the checksum is kept modulo this
  BinaryUpdate,  \* is admin -b also used without -n or -i?
  MaxUsers, MaxMrs, MaxComments   \* bounds on the lists of the header

ASSUME AdminAssumption ==
  /\ SumModulus \in Nat \ {0}
  /\ BinaryUpdate \in BOOLEAN
  /\ Keywords \subseteq Letters
  /\ {"none", "a", ",", " ", "-"} \cap (Releases \cup Letters) = {}
  /\ \A c \in Commands : /\ {c.set, c.unset} \subseteq Seq([flag : STRING, arg : Seq(STRING)])
                         /\ c.add \in Seq(STRING)
  /\ \A n \in Creations : n.mrs \in Seq(STRING) /\ n.comments \in Seq(STRING)
  /\ \A c \in Changes : c.mrs \in Seq(STRING) /\ c.comments \in Seq(STRING)

VARIABLES
  file,     \* the history file
  meant,    \* the flags as the last command that wrote the file had them in memory
  undone    \* the releases it unlocked and the users it erased

vars == <<file, meant, undone>>

Absent == [there |-> FALSE]

-----------------------------------------------------------------------------
(* The flags in memory: struct sccs_file_flags.  The encoded flag is kept  *)
(* apart: neither -f nor -d changes it.                                    *)

Switches == {"b", "i", "j", "n", "x"}
Texts == {"m", "q", "t", "v"}

NoFlags ==
  [on |-> {}, ceiling |-> "none", floor |-> "none", default |-> "none",
   allLocked |-> FALSE, locked |-> {}, text |-> <<>>, letters |-> {}]

\* release_list(const char *): white space is skipped, and so is a comma after a number.
\* What is no number ends the list, and a negative one ("-") makes the constructor fail.
EndsList(arg, i) ==
  /\ arg[i] \notin Releases \cup {" "}
  /\ ~(arg[i] = "," /\ i > 1 /\ arg[i - 1] \in Releases)
IsReached(arg, i) == \A j \in 1..(i - 1) : ~EndsList(arg, j)
ReleaseList(arg) == {arg[i] : i \in {j \in DOMAIN arg : arg[j] \in Releases /\ IsReached(arg, j)}}
ReleaseListFails(arg) == \E i \in DOMAIN arg : arg[i] = "-" /\ IsReached(arg, i)

\* Mutant of ValidSetting: the ceiling is not checked.
MutantValidSetting(s) ==
  CASE s.flag \in {"d", "f"} -> Len(s.arg) = 1 /\ s.arg[1] \in Releases
    [] s.flag = "i" -> s.arg = <<>>
    [] s.flag = "y" -> ToSet(s.arg) \subseteq Letters \cup {","}
    [] OTHER -> s.flag \in Switches \cup Texts \cup {"c", "l"}

\* What sccs_file::admin accepts after -f.  A release alone is a valid SID.
ValidSetting(s) ==
  CASE s.flag \in {"c", "d", "f"} -> Len(s.arg) = 1 /\ s.arg[1] \in Releases
    [] s.flag = "i" -> s.arg = <<>>
    [] s.flag = "l" -> ~ReleaseListFails(s.arg)
    [] s.flag = "y" -> ToSet(s.arg) \subseteq Letters \cup {","}
    [] OTHER -> s.flag \in Switches \cup Texts

\* -f: a list of locked releases replaces the list, not the lock on all releases.
SetFlag(f, s) ==
  CASE s.flag \in Switches -> [f EXCEPT !.on = @ \cup {s.flag}]
    [] s.flag = "c" -> [f EXCEPT !.ceiling = s.arg[1]]
    [] s.flag = "f" -> [f EXCEPT !.floor = s.arg[1]]
    [] s.flag = "d" -> [f EXCEPT !.default = s.arg[1]]
    [] s.flag = "l" /\ s.arg = <<"a">> -> [f EXCEPT !.allLocked = TRUE, !.locked = {}]
    [] s.flag = "l" /\ s.arg # <<"a">> -> [f EXCEPT !.locked = ReleaseList(s.arg)]
    [] s.flag = "y" -> [f EXCEPT !.letters = ToSet(s.arg) \ {","}]
    [] s.flag \in Texts ->
         [f EXCEPT !.text = [t \in DOMAIN @ \cup {s.flag} |->
                               IF t = s.flag THEN s.arg ELSE @[t]]]

\* Mutant of UnsetPermitted: unlocking one release of a file whose releases are all
\* locked is silently ignored, as it was before (NEWS).
MutantUnsetPermitted(f, s) == s.flag \in Switches \cup Texts \cup {"c", "d", "f", "l", "y"}

\* -d: one release cannot be unlocked while all are locked.
UnsetPermitted(f, s) ==
  /\ s.flag \in Switches \cup Texts \cup {"c", "d", "f", "l", "y"}
  /\ s.flag = "l" /\ s.arg # <<"a">> => ~f.allLocked /\ ~ReleaseListFails(s.arg)

UnsetFlag(f, s) ==
  CASE s.flag \in Switches -> [f EXCEPT !.on = @ \ {s.flag}]
    [] s.flag = "c" -> [f EXCEPT !.ceiling = "none"]
    [] s.flag = "f" -> [f EXCEPT !.floor = "none"]
    [] s.flag = "d" -> [f EXCEPT !.default = "none"]
    [] s.flag = "l" /\ s.arg = <<"a">> -> [f EXCEPT !.allLocked = FALSE, !.locked = {}]
    [] s.flag = "l" /\ s.arg # <<"a">> -> [f EXCEPT !.locked = @ \ ReleaseList(s.arg)]
    [] s.flag = "y" -> [f EXCEPT !.letters = {}]
    [] s.flag \in Texts -> [f EXCEPT !.text = [t \in DOMAIN @ \ {s.flag} |-> @[t]]]

\* sccs_file::admin on the flags: every -f in its order, then every -d, until one is
\* refused.
TrySet(r, s) ==
  IF r.ok /\ ValidSetting(s)
  THEN [r EXCEPT !.flags = SetFlag(r.flags, s)]
  ELSE [r EXCEPT !.ok = FALSE]
TryUnset(r, s) ==
  IF r.ok /\ UnsetPermitted(r.flags, s)
  THEN [r EXCEPT !.flags = UnsetFlag(r.flags, s)]
  ELSE [r EXCEPT !.ok = FALSE]

ChangeFlags(f, c) ==
  LET n == Len(c.set)
      after[i \in 0..(n + Len(c.unset))] ==
        IF i = 0 THEN [ok |-> TRUE, flags |-> f]
        ELSE IF i <= n THEN TrySet(after[i - 1], c.set[i])
        ELSE TryUnset(after[i - 1], c.unset[i - n])
  IN after[n + Len(c.unset)]

\* A list without the members of a set.
Without(list, S) ==
  LET kept[i \in 0..Len(list)] ==
        IF i = 0 THEN <<>>
        ELSE IF list[i] \in S THEN kept[i - 1] ELSE Append(kept[i - 1], list[i])
  IN kept[Len(list)]

\* ... and on the users: those that are added come first.
ChangeUsers(users, c) == c.add \o Without(users, c.erase)
\* ... and on the description, which -t replaces.
Description(old, c) == IF c.description = "same" THEN old ELSE c.description

-----------------------------------------------------------------------------
(* The flags in the file.                                                  *)

Separated(s) ==
  [i \in 1..(2 * Len(s) - 1) |-> IF i % 2 = 1 THEN s[(i + 1) \div 2] ELSE " "]

\* sccs_file::write: which flags get a line, and what stands in it.
HasLine(f, letter) ==
  CASE letter \in Switches -> letter \in f.on
    [] letter = "c" -> f.ceiling # "none"
    [] letter = "f" -> f.floor # "none"
    [] letter = "d" -> f.default # "none"
    [] letter = "l" -> f.allLocked \/ f.locked # {}
    [] letter = "y" -> f.letters # {}
    [] letter = "e" -> TRUE
    [] letter \in Texts -> letter \in DOMAIN f.text

FlagLine(f, encoded, letter) ==
  CASE letter \in Switches -> <<>>
    [] letter = "c" -> <<f.ceiling>>
    [] letter = "f" -> <<f.floor>>
    [] letter = "d" -> <<f.default>>
    [] letter = "l" -> IF f.allLocked THEN <<"a">> ELSE Separated(SetToSeq(f.locked))
    [] letter = "y" -> Separated(SetToSeq(f.letters))
    [] letter = "e" -> IF encoded THEN <<"1">> ELSE <<"0">>
    [] letter \in Texts -> f.text[letter]

WriteFlags(f, encoded) ==
  [letter \in {l \in Switches \cup Texts \cup {"c", "d", "e", "f", "l", "y"} : HasLine(f, l)}
     |-> FlagLine(f, encoded, letter)]

\* The constructor of sccs_file on the lines the parser found.  set_expanded_keyword_flag
\* takes every character of its argument, the separators too.
ReleaseArg(lines, letter) == IF letter \in DOMAIN lines THEN lines[letter][1] ELSE "none"
Tokens(lines, letter) == IF letter \in DOMAIN lines THEN ToSet(lines[letter]) ELSE {}
\* Mutant of AllLocked: the argument a is taken for a list.
MutantAllLocked(lines) == FALSE
AllLocked(lines) == "l" \in DOMAIN lines /\ lines["l"] = <<"a">>

ReadFlags(lines) ==
  [on |-> DOMAIN lines \cap Switches,
   ceiling |-> ReleaseArg(lines, "c"),
   floor |-> ReleaseArg(lines, "f"),
   default |-> ReleaseArg(lines, "d"),
   allLocked |-> AllLocked(lines),
   locked |-> Tokens(lines, "l") \cap Releases,
   text |-> [t \in DOMAIN lines \cap Texts |-> lines[t]],
   letters |-> Tokens(lines, "y")]

ReadEncoded(lines) == lines["e"] = <<"1">>

-----------------------------------------------------------------------------
(* Writing the file.                                                       *)

\* The checksum of a file: that of the digit of the encoded flag and that of the rest.
Checksum(lines, rest) == (rest + IF ReadEncoded(lines) THEN 1 ELSE 0) % SumModulus
\* Mutants of EndUpdate: the flag is left as it was written; it is set and the
\* checksum is not.
MutantNoRehack(lines, encoded, rest) == [lines |-> lines, stored |-> Checksum(lines, rest)]
MutantRehackNoSum(lines, encoded, rest) ==
  [lines |-> IF encoded THEN [lines EXCEPT !["e"] = <<"1">>] ELSE lines,
   stored |-> Checksum(lines, rest)]

\* end_update: the checksum is computed from what was written; when the body turned out
\* to need encoding after that, rehack_encoded_flag sets the flag and adds to the sum.
EndUpdate(lines, encoded, rest) ==
  IF encoded /\ ~ReadEncoded(lines)
  THEN [lines |-> [lines EXCEPT !["e"] = <<"1">>],
        stored |-> (Checksum(lines, rest) + 1) % SumModulus]
  ELSE [lines |-> lines, stored |-> Checksum(lines, rest)]

\* The file written from flags and encoded as they were when the header was written,
\* encodedNow when the body had been.  What the other bytes of the file add up to is open.
Written(flags, encoded, encodedNow, rest, header) ==
  LET end == EndUpdate(WriteFlags(flags, encoded), encodedNow, rest) IN
  [there |-> TRUE, lines |-> end.lines, stored |-> end.stored, rest |-> rest,
   users |-> header.users, description |-> header.description,
   mrs |-> header.mrs, comments |-> header.comments, body |-> header.body]

Header == [users |-> file.users, description |-> file.description, mrs |-> file.mrs,
           comments |-> file.comments, body |-> file.body]

\* mr_required.
MrRequired(f) == "v" \in DOMAIN f.text
\* What a command took back, for the properties: the -dl releases and the -e users.
TakenBack(c) ==
  [releases |-> UNION {IF s.arg = <<"a">> THEN Releases ELSE ReleaseList(s.arg) :
                         s \in {t \in ToSet(c.unset) : t.flag = "l"}},
   users |-> c.erase \ ToSet(c.add)]

\* body_insert encodes the body when -b was given, and when it turns out not to be text:
\* a control character at the start of a line, a line that is too long, no newline at
\* the end.
Encodes(binary, input) == binary \/ input = "binary"
Body(input, encoded) ==
  IF input = "none" THEN "empty" ELSE IF encoded THEN "encoded" ELSE "text"

\* admin -n and admin -i.  An empty -t is refused.  The -m option may be absent, empty,
\* blank, or name some MRs.  The header has been written when the body is encoded.  With
\* the i flag a body without keywords is an error.
Create(c, n) ==
  LET new == ChangeFlags(NoFlags, c)
      encoded == Encodes(c.binary, n.input)
  IN
  /\ file = Absent
  /\ c.description # ""
  /\ new.ok
  /\ IF MrRequired(new.flags) THEN n.m # "absent" ELSE n.m \in {"absent", "empty"}
  /\ "i" \in new.flags.on => n.input = "none" \/ n.keyword
  /\ \E rest \in 0..(SumModulus - 1) :
       file' = Written(new.flags, c.binary, encoded, rest,
                       [users |-> ChangeUsers(<<>>, c), description |-> Description("", c),
                        mrs |-> n.mrs, comments |-> n.comments,
                        body |-> Body(n.input, encoded)])
  /\ meant' = [flags |-> new.flags, encoded |-> encoded]
  /\ undone' = TakenBack(c)

\* sccs_file::update, for the commands that leave the body alone.
Rewrite(flags, encoded, header) ==
  /\ \E rest \in 0..(SumModulus - 1) : file' = Written(flags, encoded, encoded, rest, header)
  /\ meant' = [flags |-> flags, encoded |-> encoded]

\* admin on a file that exists.
Change(c) ==
  LET new == ChangeFlags(ReadFlags(file.lines), c)
      users == ChangeUsers(file.users, c)
  IN
  /\ file # Absent
  /\ new.ok
  /\ c.binary => BinaryUpdate
  /\ Len(users) <= MaxUsers
  /\ Rewrite(new.flags, c.binary \/ ReadEncoded(file.lines),
             [Header EXCEPT !.users = users,
                            !.description = Description(file.description, c)])
  /\ undone' = TakenBack(c)

\* admin -z: update_checksum.
FixChecksum ==
  /\ file # Absent
  /\ Rewrite(ReadFlags(file.lines), ReadEncoded(file.lines), Header)
  /\ UNCHANGED undone

\* process_mrs: the MRs added come first; the deleted ones go to the comments.
DeletedMrs(mrs, c) == Without(mrs, ToSet(mrs) \ c.delete)
KeptMrs(mrs, c) == Without(mrs, c.delete)
DeletionComment(mrs, c) ==
  IF DeletedMrs(mrs, c) = <<>> THEN <<>> ELSE <<"DELETED">> \o DeletedMrs(mrs, c)
\* Mutant of NewComments: the deletions are noted only along with a comment.
MutantNewComments(mrs, c) ==
  IF c.comments = <<>> THEN <<>>
  ELSE c.comments \o DeletionComment(mrs, c) \o <<"CHANGED">>

NewComments(mrs, c) ==
  c.comments \o DeletionComment(mrs, c) \o (IF c.comments = <<>> THEN <<>> ELSE <<"CHANGED">>)

\* cdc.  MRs must be given when the v flag is set, and must not when it is not; the
\* checker, if there is one, may refuse them.
Cdc(c) ==
  LET f == ReadFlags(file.lines)
      given == c.mrs # <<>> \/ c.delete # {}
      mrs == c.mrs \o KeptMrs(file.mrs, c)
      comments == NewComments(file.mrs, c) \o file.comments
  IN
  /\ file # Absent
  /\ IF MrRequired(f) THEN given ELSE ~given
  /\ Len(mrs) <= MaxMrs /\ Len(comments) <= MaxComments
  /\ Rewrite(f, ReadEncoded(file.lines), [Header EXCEPT !.mrs = mrs, !.comments = comments])
  /\ UNCHANGED undone

Init ==
  /\ file = Absent
  /\ meant = [flags |-> NoFlags, encoded |-> FALSE]
  /\ undone = [releases |-> {}, users |-> {}]

Next ==
  \/ \E c \in Commands, n \in Creations : Create(c, n)
  \/ \E c \in Commands : Change(c)
  \/ FixChecksum
  \/ \E c \in Changes : Cdc(c)

Spec == Init /\ [][Next]_vars

-----------------------------------------------------------------------------
\* The file and the flags have their types; releases in flags are valid ones.
FlagsOK(f) ==
  /\ f.on \subseteq Switches
  /\ {f.ceiling, f.floor, f.default} \subseteq Releases \cup {"none"}
  /\ f.allLocked \in BOOLEAN /\ f.locked \subseteq Releases
  /\ DOMAIN f.text \subseteq Texts
  /\ f.letters \subseteq Letters \cup {" "}

TypeOK ==
  /\ FlagsOK(meant.flags) /\ meant.encoded \in BOOLEAN
  /\ file # Absent =>
       /\ file.stored \in 0..(SumModulus - 1)
       /\ file.body \in {"empty", "text", "encoded"}
       /\ FlagsOK(ReadFlags(file.lines))

\* What the flags mean to the other programs: which releases are locked, which
\* keywords are expanded, and the rest as it is.
Locked(f, r) == f.allLocked \/ r \in f.locked
Expanded(f) == IF f.letters = {} THEN Keywords ELSE f.letters \cap Keywords
Meaning(f) ==
  [on |-> f.on, ceiling |-> f.ceiling, floor |-> f.floor, default |-> f.default,
   text |-> f.text, locked |-> {r \in Releases : Locked(f, r)}, expanded |-> Expanded(f)]

\* The flags survive the way through the file: what the next command reads means what
\* the last one meant, however often the file has been rewritten (sccs_file::write
\* against the constructor of sccs_file).
FlagsSurvive ==
  file # Absent =>
    /\ Meaning(ReadFlags(file.lines)) = Meaning(meant.flags)
    /\ ReadEncoded(file.lines) = meant.encoded

\* The encoded flag tells how the body is to be read: create and rehack_encoded_flag
\* set it exactly when body_insert encoded the body.
EncodingIsMarked ==
  file # Absent =>
    /\ file.body = "encoded" => ReadEncoded(file.lines)
    /\ file.body = "text" => ~ReadEncoded(file.lines)

\* The checksum in the first line is that of the file, also when the flag was changed
\* after the sum had been computed (end_update).
ChecksumRight == file # Absent => file.stored = Checksum(file.lines, file.rest)

\* cdc and admin forget nothing: comments are only put before the comments there are,
\* and an MR that goes is named in the new ones.
NothingForgotten ==
  [][file # Absent =>
       /\ IsSuffix(file.comments, file'.comments)
       /\ \A m \in ToSet(file.mrs) \ ToSet(file'.mrs) :
            m \in ToSet(SubSeq(file'.comments, 1,
                              Len(file'.comments) - Len(file.comments)))]_vars

\* What a successful admin took back is gone: a release named by -dl is not locked, a
\* user named by -e is not in the list, whatever the file held before.
TakenBackIsGone ==
  file # Absent =>
    /\ \A r \in undone.releases : ~Locked(ReadFlags(file.lines), r)
    /\ undone.users \cap ToSet(file.users) = {}

=============================================================================
