----------------------------- MODULE UrlClaims -----------------------------
(***************************************************************************)
(* The rules of the URL claim registry (crates/agent/src/url_claim.rs).    *)
(*                                                                         *)
(* A registry is a set of entries.  An entry carries the key it blocks and *)
(* the sub-agent that owns it; a key is an exact (normalized) URL or the   *)
(* source of a regular expression.  The operators take the registry as an  *)
(* argument: in the code every call runs under one mutex, so each is one   *)
(* atomic step of the module that owns the registry (AgentTree).           *)
(*                                                                         *)
(* Abstractions.  A URL and a regular expression are opaque values;        *)
(* normalize_url is the function Normal and Regex::is_match the relation   *)
(* Matches.  The registry is a Vec in the code; keys are never repeated in *)
(* it (ClaimsDisjoint in AgentTree), so a set loses nothing.  An invalid   *)
(* regular expression and an empty scope never reach the registry: the     *)
(* `fork` tool has already refused them (tools/fork.rs).                   *)
(*                                                                         *)
(* An operator named Bad... is a plausible mistake in the definition that  *)
(* follows it; no specification uses it, mutation runs put it in place.    *)
(***************************************************************************)

CONSTANTS
  Url,      \* the URLs a scope may name, as the model wrote them
  Regex,    \* the sources of the regular expressions a scope may name
  Normal,   \* normalize_url: drops a #fragment that is not a hash route
  Matches   \* the URLs each regular expression matches

ASSUME UrlAssumption ==
  /\ Normal \in [Url -> Url]
  /\ \A u \in Url : Normal[Normal[u]] = Normal[u]
  /\ Matches \in [Regex -> SUBSET Url]

-----------------------------------------------------------------------------
(* Scopes and keys. *)

\* The scope of a fork: one page, a list of pages, or a pattern.
Scope ==
  [kind : {"page"}, url : Url]
    \cup [kind : {"list"}, urls : SUBSET Url \ {{}}]
    \cup [kind : {"pattern"}, regex : Regex]

ExactKey(u)   == [kind |-> "exact", url |-> u]
PatternKey(r) == [kind |-> "pattern", regex |-> r]

Key == {ExactKey(u) : u \in Url} \cup {PatternKey(r) : r \in Regex}

\* The URLs a scope names, as they were written.
RawUrls(s) ==
  IF s.kind = "page" THEN {s.url}
  ELSE IF s.kind = "list" THEN s.urls ELSE {}

\* The keys a guard for the scope releases when it is dropped.  A list is
\* deduplicated after normalization.
KeysOf(s) ==
  IF s.kind = "pattern" THEN {PatternKey(s.regex)}
  ELSE {ExactKey(Normal[u]) : u \in RawUrls(s)}

\* Two keys block each other: the same URL, the same regex source, or a
\* regular expression and a (normalized) URL that it matches.
Clash(k, l) ==
  \/ k = l
  \/ \E r \in Regex, u \in Url :
       /\ {k, l} = {PatternKey(r), ExactKey(u)}
       /\ u \in Matches[r]

-----------------------------------------------------------------------------
(* The registry. *)

\* check_exact: `raw` holds the URL as it was written for a single page, and
\* is empty for the members of a list.
CheckExact(registry, url, raw) ==
  \A e \in registry :
    /\ e.key # ExactKey(url)
    /\ \A r \in Regex :
         e.key = PatternKey(r) => Matches[r] \cap ({url} \cup raw) = {}

\* check_pattern: only identical sources and the URLs already claimed count.
CheckPattern(registry, regex) ==
  \A e \in registry :
    /\ e.key # PatternKey(regex)
    /\ \A u \in Url : e.key = ExactKey(u) => u \notin Matches[regex]

\* try_claim succeeds: every part of the scope passes against the registry
\* as it was before the call.
Claimable(registry, s) ==
  /\ s.kind = "page" => CheckExact(registry, Normal[s.url], {s.url})
  /\ s.kind = "list" => \A u \in s.urls : CheckExact(registry, Normal[u], {})
  /\ s.kind = "pattern" => CheckPattern(registry, s.regex)

\* What a successful try_claim leaves in the registry.
Claimed(registry, s, owner) ==
  registry \cup [key : KeysOf(s), owner : {owner}]

\* No two entries block each other.
Disjoint(registry) ==
  \A e, f \in registry : e # f => ~Clash(e.key, f.key)

BadReleasedAll(registry, scopes) ==
  {e \in registry : \A s \in scopes : e.key # CHOOSE k \in KeysOf(s) : TRUE}

\* What dropping the ClaimGuards of several scopes leaves: entries are removed
\* by key, whoever owns them.
ReleasedAll(registry, scopes) ==
  {e \in registry : \A s \in scopes : e.key \notin KeysOf(s)}
=============================================================================
