----------------------------- MODULE LikeMatcher -----------------------------
(***************************************************************************)
(* LikeMatcher (src/lib/expression/evaluation/like_matcher.cpp): how a SQL *)
(* LIKE pattern is taken apart and which matcher it is given to.  Strings  *)
(* and patterns are sequences of characters, naturals; the two wildcards   *)
(* are SingleChar and AnyChars.                                            *)
(***************************************************************************)
EXTENDS Integers, Sequences, SequencesExt, FiniteSetsExt

SingleChar == -1     \* '_'
AnyChars == -2       \* '%'
IsWildcard(c) == c \in {SingleChar, AnyChars}

(* A token is a one-element sequence with a wildcard, or a string.         *)
pattern_string_to_tokens(pattern) ==
    LET n == Len(pattern)
        tokens[p \in 1..(n + 1)] ==
            IF p > n THEN <<>>
            ELSE IF IsWildcard(pattern[p]) THEN << <<pattern[p]>> >> \o tokens[p + 1]
            ELSE LET next == Min({q \in (p + 1)..n : IsWildcard(pattern[q])} \union {n + 1})
                 IN << SubSeq(pattern, p, next - 1) >> \o tokens[next]
    IN tokens[1]

IsAnyChars(token) == token = <<AnyChars>>
IsString(token) == ~IsWildcard(token[1])

(* The loop over the tokens, which expects '%' and a string in turn.       *)
IsContainsMultiple(tokens) ==
    \A i \in DOMAIN tokens : IF i % 2 = 1 THEN IsAnyChars(tokens[i]) ELSE IsString(tokens[i])

pattern_string_to_pattern_variant(pattern) ==
    LET tokens == pattern_string_to_tokens(pattern)
        n == Len(tokens)
    IN IF n = 2 /\ IsString(tokens[1]) /\ IsAnyChars(tokens[2])
       THEN [kind |-> "StartsWith", strings |-> <<tokens[1]>>]
       ELSE IF n = 2 /\ IsAnyChars(tokens[1]) /\ IsString(tokens[2])
       THEN [kind |-> "EndsWith", strings |-> <<tokens[2]>>]
       ELSE IF n = 3 /\ IsAnyChars(tokens[1]) /\ IsString(tokens[2]) /\ IsAnyChars(tokens[3])
       THEN [kind |-> "Contains", strings |-> <<tokens[2]>>]
       ELSE IF IsContainsMultiple(tokens)
       THEN [kind |-> "MultipleContains", strings |-> SelectSeq(tokens, IsString)]
       ELSE [kind |-> "Regex", strings |-> <<pattern>>]

(* Every start, from position from on, at which string contains part.      *)
Occurrences(string, part, from) ==
    {p \in from..(Len(string) - Len(part) + 1) : SubSeq(string, p, p + Len(part) - 1) = part}

(* std::regex_match of the regular expression that sql_like_to_regex makes *)
(* of the pattern, '%' becoming a starred dot and '_' a dot.                          *)
RegexMatch(string, pattern) ==
    LET n == Len(string)
        m == Len(pattern)
        match[p \in 1..(m + 1), s \in 1..(n + 1)] ==
            IF p > m THEN s > n
            ELSE IF pattern[p] = AnyChars THEN match[p + 1, s] \/ (s <= n /\ match[p, s + 1])
            ELSE s <= n /\ pattern[p] \in {SingleChar, string[s]} /\ match[p + 1, s + 1]
    IN match[1, 1]

(* The strings are searched for one behind the other.                      *)
FindAll(string, parts) ==
    LET position[k \in 0..Len(parts)] ==
            IF k = 0 THEN 1
            ELSE LET found == IF position[k - 1] = 0 THEN {}
                              ELSE Occurrences(string, parts[k], position[k - 1])
                 IN IF found = {} THEN 0 ELSE Min(found) + Len(parts[k])
    IN position[Len(parts)] # 0

resolve(variant, invert_results, string) ==
    LET part == variant.strings[1]
        n == Len(string)
        k == Len(part)
        matches == CASE variant.kind = "StartsWith" -> n >= k /\ SubSeq(string, 1, k) = part
                     [] variant.kind = "EndsWith" -> n >= k /\ SubSeq(string, n - k + 1, n) = part
                     [] variant.kind = "Contains" -> Occurrences(string, part, 1) # {}
                     [] variant.kind = "MultipleContains" -> FindAll(string, variant.strings)
                     [] variant.kind = "Regex" -> RegexMatch(string, part)
    IN matches # invert_results

-----------------------------------------------------------------------------
(* What LIKE means: the string can be cut into as many pieces as the       *)
(* pattern has characters, a character or '_' taking a piece of length one *)
(* and '%' a piece of any length.                                          *)
Like(string, pattern) ==
    \E cut \in [1..(Len(pattern) + 1) -> 0..Len(string)] :
        /\ cut[1] = 0
        /\ cut[Len(pattern) + 1] = Len(string)
        /\ \A p \in DOMAIN pattern :
              IF pattern[p] = AnyChars THEN cut[p] <= cut[p + 1]
              ELSE /\ cut[p + 1] = cut[p] + 1
                   /\ pattern[p] \in {SingleChar, string[cut[p + 1]]}
=============================================================================
