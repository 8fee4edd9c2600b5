--------------------------- MODULE VersionCompare ---------------------------
(***************************************************************************)
(* The version comparison of internal/server/vercmp: Debian's verrevcmp,   *)
(* RPM's rpmvercmp, Alpine's token walk and the semver-like comparison of  *)
(* the language ecosystems.  Whether a package is affected by a CVE, and   *)
(* which of several advisories wins, rests on their being orders.          *)
(*                                                                         *)
(* A version is a sequence of bytes, since the algorithms are about single *)
(* characters; it has no surrounding spaces.  The loops that cut two       *)
(* strings in step are said by what they cut: the n-th piece of each, an   *)
(* empty piece or the end after the last.  Numbers are compared by their   *)
(* digits; the machine integers that the code reads epochs and apk's       *)
(* numbers into do not overflow, and an epoch has no sign.                 *)
(***************************************************************************)
EXTENDS Integers, Sequences, FiniteSets, FiniteSetsExt

CONSTANT Versions \* for each family, the versions that packages and advisories have

Byte == 1..255
Comparators == {"debian", "rhel", "alpine", "generic"}

ASSUME VersionsAreBytes ==
  /\ DOMAIN Versions \subseteq Comparators
  /\ \A f \in DOMAIN Versions : Versions[f] \subseteq Seq(Byte) /\ IsFiniteSet(Versions[f])

VARIABLES family,  \* the family of the ecosystem
          version  \* the version that is compared, <<>> before there is one

versionVars == <<family, version>>

Colon == 58
Dash == 45
Dot == 46
Tilde == 126
Caret == 94
Underscore == 95
Plus == 43
Zero == 48
Digits == 48..57
NonDigits == Byte \ Digits
UpperLetters == 65..90
LowerLetters == 97..122
Letters == LowerLetters \cup UpperLetters

-----------------------------------------------------------------------------
(* Helpers that the families share. *)

Sign(n) == IF n < 0 THEN -1 ELSE IF n > 0 THEN 1 ELSE 0

From(s, i) == SubSeq(s, i, Len(s))
Before(s, i) == SubSeq(s, 1, i - 1)

(* The first place at or after i whose byte is not in C. *)
RunEnd(s, i, C) ==
  Min({j \in i..(Len(s) + 1) : j = Len(s) + 1 \/ s[j] \notin C})

Places(s, c) == {i \in 1..Len(s) : s[i] = c}

(* The one place of a set that n - 1 others precede, if there is one. *)
Nth(places, n) == {i \in places : Cardinality({j \in places : j <= i}) = n}

(* The first of the results that decides, 0 when none does. *)
Deciding(results) ==
  LET D == {i \in DOMAIN results : results[i] # 0}
  IN IF D = {} THEN 0 ELSE results[Min(D)]

Longest(s, t) == 1..Max({Len(s), Len(t)})

Padded(s, i, pad) == IF i <= Len(s) THEN s[i] ELSE pad

(* The first difference of two sequences of numbers, both padded with pad. *)
FirstDifference(s, t, pad) ==
  Deciding([i \in Longest(s, t) |-> Sign(Padded(s, i, pad) - Padded(t, i, pad))])

StrCmp(s, t) == FirstDifference(s, t, 0)

StripLeadingZeros(s) == From(s, RunEnd(s, 1, {Zero}))

CompareNumStr(s, t) ==
  LET a == StripLeadingZeros(s)
      b == StripLeadingZeros(t)
  IN Deciding(<<Sign(Len(a) - Len(b)), StrCmp(a, b)>>)

AllDigits(s) == s # <<>> /\ \A i \in 1..Len(s) : s[i] \in Digits

-----------------------------------------------------------------------------
(* Debian: words and numbers in turn, of which the first word and the last
   number may be empty. *)

DebianOrder(c) == IF c = Tilde THEN -1 ELSE IF c \in Letters THEN c ELSE c + 256

Weights(word) == [i \in 1..Len(word) |-> DebianOrder(word[i])]

ChunkStarts(s) ==
  {i \in 1..Len(s) : i = 1 \/ (s[i - 1] \in Digits /\ s[i] \notin Digits)}

Chunk(s, n) ==
  LET found == Nth(ChunkStarts(s), n)
      i == Min(found)
      d == RunEnd(s, i, NonDigits)
      e == RunEnd(s, d, Digits)
  IN IF found = {} THEN [word |-> <<>>, number |-> <<>>]
     ELSE [word |-> SubSeq(s, i, d - 1), number |-> SubSeq(s, d, e - 1)]

CompareChunks(x, y) ==
  Deciding(<<FirstDifference(Weights(x.word), Weights(y.word), 0),
             CompareNumStr(x.number, y.number)>>)

VerRevCmp(a, b) ==
  Deciding([n \in Longest(a, b) |-> CompareChunks(Chunk(a, n), Chunk(b, n))])

(* An epoch that is not a number stays part of the version. *)
SplitDebianVersion(v) ==
  LET c == RunEnd(v, 1, Byte \ {Colon})
      numeric == c <= Len(v) /\ AllDigits(Before(v, c))
      rest == IF numeric THEN From(v, c + 1) ELSE v
      dashes == Places(rest, Dash)
  IN [epoch |-> IF numeric THEN Before(v, c) ELSE <<>>,
      upstream |-> IF dashes = {} THEN rest ELSE Before(rest, Max(dashes)),
      revision |-> IF dashes = {} THEN <<Zero>> ELSE From(rest, Max(dashes) + 1)]

CompareDebian(a, b) ==
  LET x == SplitDebianVersion(a)
      y == SplitDebianVersion(b)
  IN Deciding(<<CompareNumStr(x.epoch, y.epoch),
                VerRevCmp(x.upstream, y.upstream),
                VerRevCmp(x.revision, y.revision)>>)

-----------------------------------------------------------------------------
(* RPM: tildes, carets and runs of digits or of letters; what stands between
   them only separates. *)

Kind(c) ==
  CASE c = Tilde -> "tilde" [] c = Caret -> "caret"
    [] c \in Digits -> "digits" [] c \in Letters -> "letters" [] OTHER -> "separator"

SegmentStarts(s) ==
  {i \in 1..Len(s) :
     CASE Kind(s[i]) = "separator" -> FALSE
       [] Kind(s[i]) \in {"tilde", "caret"} -> TRUE
       [] OTHER -> i = 1 \/ Kind(s[i - 1]) # Kind(s[i])}

Segment(s, n) ==
  LET found == Nth(SegmentStarts(s), n)
      i == Min(found)
      run == IF s[i] \in Digits THEN Digits ELSE Letters
  IN IF found = {} THEN [kind |-> "end", text |-> <<>>]
     ELSE [kind |-> Kind(s[i]), text |-> SubSeq(s, i, RunEnd(s, i, run) - 1)]

(* Of two kinds a tilde is the older one, whatever the other is; then, when one
   is a caret, the end and after it the caret; then the end, and last letters. *)
CompareSegments(x, y) ==
  LET Either(kind) == kind \in {x.kind, y.kind}
      Older(kind) == IF x.kind = kind THEN -1 ELSE 1
  IN IF x.kind = y.kind
     THEN IF x.kind = "digits" THEN CompareNumStr(x.text, y.text)
          ELSE IF x.kind = "letters" THEN StrCmp(x.text, y.text) ELSE 0
     ELSE IF Either("tilde") THEN Older("tilde")
     ELSE IF Either("caret") THEN Older(IF Either("end") THEN "end" ELSE "caret")
     ELSE IF Either("end") THEN Older("end")
     ELSE Older("letters")

RpmVerCmp(a, b) ==
  Deciding([n \in Longest(a, b) |-> CompareSegments(Segment(a, n), Segment(b, n))])

SplitEVR(v) ==
  LET c == RunEnd(v, 1, Byte \ {Colon})
      rest == IF c <= Len(v) THEN From(v, c + 1) ELSE v
      dashes == Places(rest, Dash)
  IN [epoch |-> IF c \in 2..Len(v) THEN Before(v, c) ELSE <<Zero>>,
      version |-> IF dashes = {} THEN rest ELSE Before(rest, Max(dashes)),
      release |-> IF dashes = {} THEN <<>> ELSE From(rest, Max(dashes) + 1)]

CompareRPM(a, b) ==
  LET x == SplitEVR(a)
      y == SplitEVR(b)
  IN Deciding(<<RpmVerCmp(x.epoch, y.epoch),
                RpmVerCmp(x.version, y.version),
                RpmVerCmp(x.release, y.release)>>)

-----------------------------------------------------------------------------
(* Alpine.  A token is its type, in apk's order, its letter or the index of its
   suffix, and its digits. *)

TokEnd == 0
TokDigitOrZero == 1
TokDigit == 2
TokLetter == 3
TokSuffix == 4
TokSuffixNo == 5
TokRevision == 6
TokInvalid == 7

SuffixNames ==
  << <<97, 108, 112, 104, 97>>, <<98, 101, 116, 97>>, <<112, 114, 101>>, <<114, 99>>,
     <<99, 118, 115>>, <<115, 118, 110>>, <<103, 105, 116>>, <<104, 103>>, <<112>> >>

PreReleaseCount == 4

(* What may follow a token of type tok at the byte c. *)
AfterToken(tok, c) ==
  CASE c = Dot /\ tok \in {TokDigitOrZero, TokDigit, TokLetter} -> TokDigit
    [] c \in LowerLetters /\ tok \in {TokDigitOrZero, TokDigit, TokSuffixNo} -> TokLetter
    [] c = Underscore /\ tok # TokRevision -> TokSuffix
    [] c = Dash /\ tok # TokRevision -> TokRevision
    [] OTHER -> TokInvalid

(* The scanner after a token of type tok that ends before place i: a separator
   is consumed, a letter is not, and a suffix may go without its number. *)
Expecting(s, tok, i) ==
  IF tok = TokSuffix THEN [place |-> i, expect |-> TokSuffixNo]
  ELSE IF i > Len(s) THEN [place |-> i, expect |-> TokEnd]
  ELSE LET next == AfterToken(tok, s[i])
       IN [place |-> IF next \in {TokLetter, TokInvalid} THEN i ELSE i + 1, expect |-> next]

(* The token of s that the scanner reads, and the scanner after it. *)
NextToken(s, scanner) ==
  LET i == scanner.place
      n == RunEnd(s, i, Digits)
      m == RunEnd(s, i + 1, Digits)
      Named == {k \in DOMAIN SuffixNames :
                  LET e == i + Len(SuffixNames[k]) - 1
                  IN e <= Len(s) /\ SubSeq(s, i, e) = SuffixNames[k]}
      Longer(k) == \A l \in Named : Len(SuffixNames[l]) <= Len(SuffixNames[k])
      suffix == CHOOSE k \in Named : Longer(k)
      Token(type, value, digits, e) ==
        [type |-> type, value |-> value, digits |-> digits, after |-> Expecting(s, type, e)]
      Stay(type) == [type |-> type, value |-> 0, digits |-> <<>>, after |-> scanner]
  IN IF i > Len(s) THEN Stay(TokEnd)
     ELSE CASE scanner.expect = TokDigit /\ n > i ->
                 Token(IF s[i] = Zero THEN TokDigitOrZero ELSE TokDigit, 0, SubSeq(s, i, n - 1), n)
            [] scanner.expect = TokLetter /\ s[i] \in LowerLetters ->
                 Token(TokLetter, s[i], <<>>, i + 1)
            [] scanner.expect = TokSuffix /\ Named # {} ->
                 Token(TokSuffix, suffix, <<>>, i + Len(SuffixNames[suffix]))
            [] scanner.expect = TokSuffixNo -> Token(TokSuffixNo, 0, SubSeq(s, i, n - 1), n)
            [] scanner.expect = TokRevision /\ s[i] = 114 /\ m > i + 1 ->
                 Token(TokRevision, 0, SubSeq(s, i + 1, m - 1), m)
            [] OTHER -> Stay(TokInvalid)

(* A token or the separator before it is at least one byte. *)
Tokens(s) ==
  LET token[n \in 0..Len(s)] ==
        NextToken(s, IF n = 0 THEN [place |-> 1, expect |-> TokDigit] ELSE token[n - 1].after)
  IN token

ApkValid(s) == Tokens(s)[Len(s)].type = TokEnd

\* Mutant: a suffix is told apart on the left side only.
CompareDiffTypesLeft(t, u) ==
  IF t.type = TokSuffix
  THEN IF t.value <= PreReleaseCount THEN -1 ELSE 1
  ELSE Sign(t.type - u.type)

CompareDiffTypes(t, u) ==
  LET Place(x) == IF x.value <= PreReleaseCount THEN -1 ELSE 1
  IN IF t.type = TokSuffix THEN Place(t)
     ELSE IF u.type = TokSuffix THEN -Place(u) ELSE Sign(t.type - u.type)

CompareApkTokens(t, u) ==
  IF t.type # u.type THEN CompareDiffTypes(t, u)
  ELSE IF t.type = TokDigitOrZero THEN FirstDifference(t.digits, u.digits, Zero)
  ELSE Deciding(<<Sign(t.value - u.value), CompareNumStr(t.digits, u.digits)>>)

(* Every token after the end is the end. *)
TokenAt(s, n) == Tokens(s)[Min({n, Len(s)})]

CompareAlpine(a, b) ==
  Deciding([n \in {0} \cup Longest(a, b) |-> CompareApkTokens(TokenAt(a, n), TokenAt(b, n))])

-----------------------------------------------------------------------------
(* The language ecosystems: runs of digits and runs of anything else, which
   dots separate. *)

WordStarts(s) ==
  {i \in 1..Len(s) :
     /\ s[i] # Dot
     /\ i = 1 \/ s[i - 1] = Dot \/ (s[i] \in Digits) # (s[i - 1] \in Digits)}

Word(s, n) ==
  LET found == Nth(WordStarts(s), n)
      i == Min(found)
      run == IF s[i] \in Digits THEN Digits ELSE NonDigits \ {Dot}
  IN IF found = {} THEN <<>> ELSE SubSeq(s, i, RunEnd(s, i, run) - 1)

(* strings.ToLower, of ASCII. *)
ToLower(word) ==
  [i \in 1..Len(word) |-> IF word[i] \in UpperLetters THEN word[i] + 32 ELSE word[i]]

QualifierNames(rank) ==
  CASE rank = -5 -> {<<100, 101, 118>>}                                      \* dev
    [] rank = -4 -> {<<97, 108, 112, 104, 97>>, <<97>>}                      \* alpha, a
    [] rank = -3 -> {<<98, 101, 116, 97>>, <<98>>}                           \* beta, b
    [] rank = -2 -> {<<112, 114, 101>>, <<99>>,
                     <<112, 114, 101, 118, 105, 101, 119>>}                  \* pre, c, preview
    [] rank = -1 -> {<<114, 99>>}                                            \* rc
    [] rank = 1 -> {<<112, 111, 115, 116>>, <<114, 101, 118>>, <<114>>}      \* post, rev, r
    [] OTHER -> {}

Known(word) == \E rank \in -5..1 : ToLower(word) \in QualifierNames(rank)
QualifierRank(word) == CHOOSE rank \in -5..1 : ToLower(word) \in QualifierNames(rank)

(* Without a leading v or V and a build's name, underscores written as dots. *)
Plain(s) ==
  LET unprefixed == IF s # <<>> /\ s[1] \in {118, 86} THEN Tail(s) ELSE s
      end == RunEnd(unprefixed, 1, Byte \ {Plus})
  IN [i \in 1..(end - 1) |-> IF unprefixed[i] = Underscore THEN Dot ELSE unprefixed[i]]

(* The numbers before the first part that is not a number, with the digits that
   this one begins with, and the qualifiers: what follows up to a dash and what
   follows the dash. *)
ParseGeneric(s) ==
  LET v == Plain(s)
      dash == RunEnd(v, 1, Byte \ {Dash})
      head == Before(v, dash)
      q == RunEnd(head, 1, Digits \cup {Dot})
  IN [release |-> Before(head, q), pre |-> From(head, q) \o <<Dot>> \o From(v, dash + 1)]

ReleaseTier(pre) ==
  IF Word(pre, 1) = <<>> THEN 0
  ELSE IF Known(Word(pre, 1)) /\ QualifierRank(Word(pre, 1)) > 0 THEN 1 ELSE -1

(* A number that is missing is 0. *)
CompareRelease(a, b) ==
  Deciding([n \in Longest(a, b) |-> CompareNumStr(Word(a, n), Word(b, n))])

(* Numbers come before words.  More identifiers come after fewer. *)
ComparePreIdent(a, b) ==
  IF a = <<>> \/ b = <<>> THEN Sign(Len(a) - Len(b))
  ELSE IF AllDigits(a) /\ AllDigits(b) THEN CompareNumStr(a, b)
  ELSE IF AllDigits(a) \/ AllDigits(b) THEN IF AllDigits(a) THEN -1 ELSE 1
  ELSE IF Known(a) /\ Known(b) THEN Sign(QualifierRank(a) - QualifierRank(b))
  ELSE StrCmp(ToLower(a), ToLower(b))

ComparePre(a, b) ==
  Deciding([n \in Longest(a, b) |-> ComparePreIdent(Word(a, n), Word(b, n))])

CompareGeneric(a, b) ==
  LET x == ParseGeneric(a)
      y == ParseGeneric(b)
  IN Deciding(<<CompareRelease(x.release, y.release),
                Sign(ReleaseTier(x.pre) - ReleaseTier(y.pre)),
                ComparePre(x.pre, y.pre)>>)

-----------------------------------------------------------------------------
(* What has a place in the order: the others answer ok = false. *)
Comparable(f, v) ==
  /\ v # <<>>
  /\ f = "alpine" => ApkValid(v)
  /\ f = "generic" => Word(ParseGeneric(v).release, 1) # <<>>

Compare(f, a, b) ==
  CASE f = "debian" -> CompareDebian(a, b)
    [] f = "rhel" -> CompareRPM(a, b)
    [] f = "alpine" -> CompareAlpine(a, b)
    [] f = "generic" -> CompareGeneric(a, b)

InitVersions ==
  /\ family \in DOMAIN Versions
  /\ version = <<>>

TakeVersion ==
  /\ version' \in Versions[family]
  /\ UNCHANGED family

NextVersions == TakeVersion

VersionSpec == InitVersions /\ [][NextVersions]_versionVars

-----------------------------------------------------------------------------
(* The versions that the order is stated for.  The words of a language
   ecosystem's version are qualifiers that the code knows: an unknown word is
   compared by its letters with a known one, and dev < alpha < cat < dev. *)
Stated(f, v) ==
  /\ Comparable(f, v)
  /\ f = "generic" =>
       LET pre == ParseGeneric(v).pre
       IN \A n \in 1..Len(pre) :
            Word(pre, n) # <<>> => AllDigits(Word(pre, n)) \/ Known(Word(pre, n))

Ordered == [f \in DOMAIN Versions |-> {v \in Versions[f] : Stated(f, v)}]

(* The result for every pair. *)
Compared ==
  [f \in DOMAIN Versions |->
    [v \in Ordered[f] |-> [w \in Ordered[f] |-> Compare(f, v, w)]]]

(* How many versions are older than v. *)
Older ==
  [f \in DOMAIN Versions |->
    [v \in Ordered[f] |-> Cardinality({w \in Ordered[f] : Compared[f][w][v] < 0})]]

(* The comparison is a total preorder: counting the older versions maps it to
   the order of numbers, for every pair.  Antisymmetry and transitivity follow,
   which the table tests of the package cannot show. *)
OrderIsTotal ==
  version \in Ordered[family] =>
    \A w \in Ordered[family] :
      Compared[family][version][w] = Sign(Older[family][version] - Older[family][w])

=============================================================================
