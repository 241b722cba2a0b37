------------------------------ MODULE Library ------------------------------
(***************************************************************************)
(* Functions of the C library that compute at the limits of their types or *)
(* keep state between calls: the conversions of stdlib/conv_functions.c,   *)
(* bsearch of stdlib/algorithm_functions.c and strtok of                   *)
(* string/string_functions.c.  A behaviour runs one of the three.          *)
(***************************************************************************)
EXTENDS Integers, SequencesExt

CONSTANTS
  LONG_MAX, LLONG_MAX, SIZE_MAX,   \* the limits of long, long long and size_t
  Numerals, Bases,   \* the arguments of the conversions
  Arrays, Keys,      \* those of bsearch
  Texts, Users, Delimiters,  \* those of strtok: each user has a text of its own
  NULL

LONG_MIN == -LONG_MAX - 1
LLONG_MIN == -LLONG_MAX - 1
ULONG_MAX == 2 * LONG_MAX + 1
ULLONG_MAX == 2 * LLONG_MAX + 1

NUL == 0
IsString(str) == str \in Seq(Nat) /\ str # <<>> /\ str[Len(str)] = NUL
Rest(str, i) == SubSeq(str, i, Len(str))

\* Numbers are in two's complement, and long long is wider than long.  An array fits
\* in memory, and it is sorted.
ASSUME LibraryAssumption ==
  /\ LONG_MAX \in Nat /\ LLONG_MAX \in Nat /\ LLONG_MAX >= ULONG_MAX /\ SIZE_MAX \in Nat
  /\ \A str \in Numerals : IsString(str)
  /\ \A base \in Bases : base \in 0..36 \ {1}
  /\ \A key \in Keys : key \in Int
  /\ \A array \in Arrays :
       /\ array \in Seq(Int) /\ Len(array) <= SIZE_MAX
       /\ \A i, j \in DOMAIN array : i <= j => array[i] <= array[j]
  /\ \A text \in Texts : IsString(text)
  /\ NULL \notin [user : Users, at : Nat]

-----------------------------------------------------------------------------
(* Characters are their codes; a string ends with NUL. *)

isspace(c) == c \in 9..13

Digit(c) ==
  CASE c \in 48..57 -> c - 48       \* '0'..'9'
    [] c \in 97..122 -> c - 87      \* 'a'..'z'
    [] c \in 65..90 -> c - 55       \* 'A'..'Z'
    [] OTHER -> 99

Signed(str) == str[1] \in {43, 45}                      \* '+', '-'
Stripped(str) ==
  LET i == CHOOSE k \in DOMAIN str : ~isspace(str[k]) /\ \A j \in 1..(k - 1) : isspace(str[j])
  IN  Rest(str, i)

\* What both loops start from: the sign, the base and the rest of the string.
Prefix(str, base) ==
  LET bare == Stripped(str)
      sign == IF bare[1] = 45 THEN -1 ELSE 1
      s == IF Signed(bare) THEN Tail(bare) ELSE bare
      hex == s[1] = 48 /\ s[2] \in {120, 88}            \* "0x", "0X"
  IN  CASE base # 0 -> [sign |-> sign, base |-> base, rest |-> s]
        [] base = 0 /\ hex -> [sign |-> sign, base |-> 16, rest |-> Rest(s, 3)]
        [] base = 0 /\ ~hex /\ s[1] = 48 -> [sign |-> sign, base |-> 8, rest |-> s]
        [] OTHER -> [sign |-> sign, base |-> 10, rest |-> s]

\* The loop, from character i on: digits until one would take the result past max;
\* then clamp.  own_errno is what it does to the errno of conv_functions.c: errno.h
\* gives each file that includes it an errno of its own, so no caller sees it.
Mutant_Accumulate_no_digit(s, base, max, clamp) ==
  LET loop[i \in DOMAIN s] == [result \in Nat |->
        IF Digit(s[i]) >= base THEN [value |-> result, own_errno |-> "kept"]
        ELSE IF result > max \div base THEN [value |-> clamp, own_errno |-> "ERANGE"]
        ELSE loop[i + 1][result * base + Digit(s[i])]]
  IN  loop[1][0]

Accumulate(s, base, max, clamp) ==
  LET loop[i \in DOMAIN s] == [result \in Nat |->
        IF Digit(s[i]) >= base THEN [value |-> result, own_errno |-> "kept"]
        ELSE IF result > (max - Digit(s[i])) \div base
             THEN [value |-> clamp, own_errno |-> "ERANGE"]
        ELSE loop[i + 1][result * base + Digit(s[i])]]
  IN  loop[1][0]

strtoll(str, base) ==
  LET p == Prefix(str, base)
      r == Accumulate(p.rest, p.base, LLONG_MAX, LLONG_MAX)
  IN  [r EXCEPT !.value = @ * p.sign]

strtol(str, base) ==
  LET r == strtoll(str, base)
  IN  CASE r.value > LONG_MAX -> [value |-> LONG_MAX, own_errno |-> "ERANGE"]
        [] r.value < LONG_MIN -> [value |-> LONG_MIN, own_errno |-> "ERANGE"]
        [] OTHER -> r

\* It clamps to LLONG_MAX, and the product wraps.
strtoull(str, base) ==
  LET p == Prefix(str, base)
      r == Accumulate(p.rest, p.base, ULLONG_MAX, LLONG_MAX)
  IN  [r EXCEPT !.value = (@ * p.sign) % (ULLONG_MAX + 1)]

\* It holds the result of strtoull in a long long.
strtoul(str, base) ==
  LET r == strtoull(str, base)
      result == IF r.value > LLONG_MAX THEN r.value - ULLONG_MAX - 1 ELSE r.value
  IN  IF result > ULONG_MAX THEN [value |-> ULONG_MAX, own_errno |-> "ERANGE"]
      ELSE [r EXCEPT !.value = result % (ULONG_MAX + 1)]

-----------------------------------------------------------------------------
VARIABLES
  call,   \* the function a behaviour runs and its arguments
  local   \* the variables of that function

library_vars == <<call, local>>

Runs(function) == call.function = function

\* The conversions are pure: they return at once.
Conversion ==
  /\ Runs("strto") /\ ~local.returned
  /\ local' = [returned |-> TRUE,
               strtol |-> strtol(call.str, call.base),
               strtoll |-> strtoll(call.str, call.base),
               strtoul |-> strtoul(call.str, call.base),
               strtoull |-> strtoull(call.str, call.base)]
  /\ UNCHANGED call

-----------------------------------------------------------------------------
(* bsearch: the array is sorted, and holds call.array[i + 1] at index i. *)

Wrapped(i) == i % (SIZE_MAX + 1)

Mutant_bsearch_init(array) == [left |-> 0, right |-> Len(array), result |-> "none"]

bsearch_init(array) == [left |-> 0, right |-> Wrapped(Len(array) - 1), result |-> "none"]

middle == local.left + (local.right - local.left) \div 2
Outside == middle >= Len(call.array)

\* What comp may return: anything for memory that is not in the array.
Comparisons ==
  IF Outside THEN {-1, 0, 1}
  ELSE LET element == call.array[middle + 1]
       IN  {IF call.key < element THEN -1 ELSE IF call.key = element THEN 0 ELSE 1}

Mutant_bsearch_step_stays(comparison) ==
  CASE comparison = 0 -> [local EXCEPT !.result = "found"]
    [] comparison < 0 -> [local EXCEPT !.right = Wrapped(middle - 1)]
    [] comparison > 0 -> [local EXCEPT !.left = middle]

\* One turn of the loop: size_t has no -1.
bsearch_step(comparison) ==
  CASE comparison = 0 -> [local EXCEPT !.result = "found"]
    [] comparison < 0 -> [local EXCEPT !.right = Wrapped(middle - 1)]
    [] comparison > 0 -> [local EXCEPT !.left = Wrapped(middle + 1)]

Searching == Runs("bsearch") /\ local.result = "none"

Turn ==
  /\ Searching /\ local.left <= local.right
  /\ \E comparison \in Comparisons : local' = bsearch_step(comparison)
  /\ UNCHANGED call

NotFound ==
  /\ Searching /\ local.left > local.right
  /\ local' = [local EXCEPT !.result = "absent"]
  /\ UNCHANGED call

-----------------------------------------------------------------------------
(* strtok: users take turns, each call is one step. *)

\* Where a token that starts at i ends: at a delimiter or the end of the text.
TokenEnd(t, i) ==
  CHOOSE k \in i..Len(t) : t[k] \in Delimiters \union {NUL}
                           /\ \A j \in i..(k - 1) : t[j] \notin Delimiters \union {NUL}

Mutant_strtok_keeps_delimiter(user, i) ==
  LET end == TokenEnd(local.text[user], i)
      more == local.text[user][end] # NUL
  IN  [local EXCEPT !.text[user][end] = NUL,
                    !.last = IF more THEN [user |-> user, at |-> end] ELSE NULL]

\* From position i of a user's text: cut the token, remember what follows it.
strtok(user, i) ==
  LET end == TokenEnd(local.text[user], i)
      more == local.text[user][end] # NUL
  IN  [local EXCEPT !.text[user][end] = NUL,
                    !.last = IF more THEN [user |-> user, at |-> end + 1] ELSE NULL]

Token(user, i) == SubSeq(local.text[user], i, TokenEnd(local.text[user], i) - 1)

\* The text passed last and what has been given of it since are not in the code.
FirstToken(user) ==
  /\ Runs("strtok")
  /\ local' = [strtok(user, 1) EXCEPT !.passed = local.text[user],
                                      !.given = <<Token(user, 1)>>]
  /\ UNCHANGED call

NextToken ==
  /\ Runs("strtok") /\ local.last # NULL
  /\ LET from == local.last
     IN  local' = [strtok(from.user, from.at) EXCEPT
                     !.given = Append(@, Token(from.user, from.at))]
  /\ UNCHANGED call

-----------------------------------------------------------------------------
LibraryInit ==
  \/ /\ call \in [function : {"strto"}, str : Numerals, base : Bases]
     /\ local = [returned |-> FALSE]
  \/ /\ call \in [function : {"bsearch"}, array : Arrays, key : Keys]
     /\ local = bsearch_init(call.array)
  \/ /\ call = [function |-> "strtok"]
     /\ local \in [text : [Users -> Texts], last : {NULL}, given : {<<>>}, passed : {<<NUL>>}]

LibraryNext ==
  \/ Conversion
  \/ Turn \/ NotFound
  \/ \E user \in Users : FirstToken(user)
  \/ NextToken

\* A search that may go on goes on.
LibrarySpec == LibraryInit /\ [][LibraryNext]_library_vars /\ WF_library_vars(Turn \/ NotFound)

-----------------------------------------------------------------------------
(* Properties *)

(* The number a string stands for, as the C standard reads it: white space, a sign, *)
(* the prefix "0x" for base 16 and base 0, and then digits.                         *)

White == 9..13 \union {32}
Start(str) ==
  CHOOSE k \in DOMAIN str : str[k] \notin White /\ \A j \in 1..(k - 1) : str[j] \in White
Unsigned(str) == IF str[Start(str)] \in {43, 45} THEN Start(str) + 1 ELSE Start(str)
HexMark(str) == str[Unsigned(str)] = 48 /\ str[Unsigned(str) + 1] \in {120, 88}

Radix(str, base) ==
  CASE base # 0 -> base
    [] base = 0 /\ HexMark(str) -> 16
    [] base = 0 /\ ~HexMark(str) /\ str[Unsigned(str)] = 48 -> 8
    [] OTHER -> 10
Digits(str, base) ==
  Rest(str, IF base \in {0, 16} /\ HexMark(str) THEN Unsigned(str) + 2 ELSE Unsigned(str))

\* Where the digits that s starts with stop, and their value.
Stop(s, base) ==
  CHOOSE k \in DOMAIN s : Digit(s[k]) >= base /\ \A j \in 1..(k - 1) : Digit(s[j]) < base
Value(s, base) ==
  LET n == Stop(s, base)
      value[k \in 0..(n - 1)] ==    \* of the first k digits
        IF k = 0 THEN 0 ELSE value[k - 1] * base + Digit(s[k])
  IN  value[n - 1]

Magnitude(str, base) == Value(Digits(str, base), Radix(str, base))
Number(str, base) ==
  IF str[Start(str)] = 45 THEN -Magnitude(str, base) ELSE Magnitude(str, base)

\* The code reads these strings as the standard does.  It does not skip a space
\* (isspace, ctype.h:11), nor "0x" when the base is given as 16 (conv_functions.c:29,96):
\* it returns 0 for them.
ReadAlike(str, base) ==
  /\ \A k \in 1..(Start(str) - 1) : str[k] # 32
  /\ base = 16 => ~HexMark(str)

Converted == Runs("strto") /\ local.returned /\ ReadAlike(call.str, call.base)

Exactly(number) == [value |-> number, own_errno |-> "kept"]
Clamped(number) == [value |-> number, own_errno |-> "ERANGE"]
Nearest(number, min, max) ==
  IF number > max THEN Clamped(max) ELSE IF number < min THEN Clamped(min) ELSE Exactly(number)

\* Of strings that are read alike, strtol converts every number as the standard asks,
\* and strtoll those above LLONG_MIN.  LLONG_MIN itself and what is below come out as
\* -LLONG_MAX (conv_functions.c:7-13,55-58,72), which is not claimed to be right, and
\* neither is where ERANGE goes.
SignedConversions ==
  Converted =>
    LET number == Number(call.str, call.base)
    IN  /\ local.strtol = Nearest(number, LONG_MIN, LONG_MAX)
        /\ number > LLONG_MIN => local.strtoll = Nearest(number, LLONG_MIN, LLONG_MAX)
        /\ number < LLONG_MIN => local.strtoll.own_errno = "ERANGE"

\* strtoull converts as the standard asks what fits in an unsigned long long, and
\* strtoul what fits in a long long if it is positive and in an unsigned long if it is
\* negative (conv_functions.c:76-81,122-125,135).  Past these limits their values
\* are not the standard's; the test of the digits at least notices what is too large for
\* an unsigned long long.
UnsignedConversions ==
  Converted =>
    LET magnitude == Magnitude(call.str, call.base)
        number == Number(call.str, call.base)
    IN  /\ IF magnitude <= ULLONG_MAX
           THEN local.strtoull = Exactly(number % (ULLONG_MAX + 1))
           ELSE local.strtoull.own_errno = "ERANGE" /\ local.strtoul.own_errno = "ERANGE"
        /\ number \in -ULONG_MAX..ULONG_MAX =>
             local.strtoul = Exactly(number % (ULONG_MAX + 1))
        /\ number \in (ULONG_MAX + 1)..LLONG_MAX => local.strtoul = Clamped(ULONG_MAX)

\* Where the code and the standard read a string alike, the conversions give the
\* standard's values within the limits these parts name.
ConversionsAreRight == SignedConversions /\ UnsignedConversions

\* The array is empty, or the key is less than its first element.
Below == call.array = <<>> \/ call.key < call.array[1]

\* bsearch reads outside the array only if the key is below it, when its right
\* end wraps (algorithm_functions.c:5,14).
StaysInside == Searching /\ local.left <= local.right /\ Outside => Below

\* Unless the key is below the array, the search finds an element equal to the
\* key, or NULL when there is none.
Finds ==
  Runs("bsearch") /\ ~Below /\ ~Searching =>
    IF local.result = "absent" THEN call.key \notin ToSet(call.array)
    ELSE call.array[middle + 1] = call.key

\* The search reads the array and answers for it.
SearchIsRight ==
  /\ Runs("bsearch") => local.left \in 0..SIZE_MAX /\ local.right \in 0..SIZE_MAX
  /\ StaysInside /\ Finds

\* Unless the key is below the array, the search ends.
SearchEnds == (Searching /\ ~Below) ~> (Runs("bsearch") /\ ~Searching)

\* And it takes no longer than a binary search should: a turn leaves half of the
\* elements to search, or fewer (algorithm_functions.c:7-17).
Window == local.right - local.left + 1
Halves == [][Turn /\ ~Below /\ Searching' => 2 * Window' <= Window]_library_vars

\* Where a text is cut into its fields: at its delimiters and its ends.
TextEnd(t) == CHOOSE k \in DOMAIN t : t[k] = NUL /\ \A j \in 1..(k - 1) : t[j] # NUL
Cuts(t) == {0, TextEnd(t)} \union {k \in 1..TextEnd(t) : t[k] \in Delimiters}

Ascending(S) ==
  CHOOSE s \in [1..Cardinality(S) -> S] :
    /\ \A i, j \in DOMAIN s : i < j => s[i] < s[j]
    /\ \A x \in S : \E i \in DOMAIN s : s[i] = x

\* The fields of a text, empty ones included: what the code returns.
Fields(t) ==
  LET cuts == Ascending(Cuts(t))
  IN  [f \in 1..(Len(cuts) - 1) |-> SubSeq(t, cuts[f] + 1, cuts[f + 1] - 1)]

\* The tokens of a text as the C standard has them: the longest runs of characters that
\* are no delimiters, none of them empty.
TokenStarts(t) ==
  {k \in 1..(TextEnd(t) - 1) : t[k] \notin Delimiters /\ (k = 1 \/ t[k - 1] \in Delimiters)}
Tokens(t) ==
  LET starts == Ascending(TokenStarts(t))
  IN  [n \in 1..Len(starts) |-> SubSeq(t, starts[n], TokenEnd(t, starts[n]) - 1)]

\* Nothing lies between two cuts: the text is empty, starts or ends with a delimiter, or
\* has two in a row.  There strtok returns an empty token and the standard none.
HasEmptyField(t) == \E cut \in Cuts(t) : cut + 1 \in Cuts(t)

\* Of a text without empty fields strtok returns the standard's tokens in order, and all
\* of them before the static pointer is NULL: even if it was called for other texts
\* before, had not come to their end, or had cut this text itself
\* (string_functions.c:135-155).
ReturnsTokens ==
  Runs("strtok") /\ local.given # <<>> /\ ~HasEmptyField(local.passed) =>
    /\ IsPrefix(local.given, Tokens(local.passed))
    /\ local.last = NULL => local.given = Tokens(local.passed)

-----------------------------------------------------------------------------
(* The inductive invariant of SearchIsRight and ReturnsTokens *)

SearchTypes ==
  Runs("bsearch") =>
    /\ call.array \in Arrays /\ call.key \in Keys
    /\ local = [left |-> local.left, right |-> local.right, result |-> local.result]
    /\ local.left \in 0..SIZE_MAX /\ local.right \in 0..SIZE_MAX
    /\ local.result \in {"none", "found", "absent"}

\* What is left of left is less than the key, what is right of right greater.
Between ==
  Searching /\ ~Below =>
    /\ local.left \in 0..Len(call.array) /\ local.right \in 0..(Len(call.array) - 1)
    /\ \A i \in 1..local.left : call.array[i] < call.key
    /\ \A i \in (local.right + 2)..Len(call.array) : call.array[i] > call.key

SearchInv == SearchTypes /\ Between /\ Finds

TokenTypes ==
  Runs("strtok") =>
    /\ local = [text |-> local.text, last |-> local.last, given |-> local.given,
                passed |-> local.passed]
    /\ local.text = [user \in Users |-> local.text[user]]
    /\ \A user \in Users : IsString(local.text[user])
    /\ local.given \in Seq(Seq(Nat)) /\ IsString(local.passed)
    /\ local.last # NULL =>
         /\ local.last.user \in Users
         /\ local.last = [user |-> local.last.user, at |-> local.last.at]
         /\ local.last.at \in 2..Len(local.text[local.last.user])

\* What has not been given yet are the fields of the rest.
TokenInv ==
  /\ TokenTypes
  /\ Runs("strtok") /\ local.given = <<>> => local.last = NULL
  /\ Runs("strtok") /\ local.given # <<>> =>
       Fields(local.passed)
         = IF local.last = NULL THEN local.given
           ELSE local.given \o Fields(Rest(local.text[local.last.user], local.last.at))
=============================================================================
