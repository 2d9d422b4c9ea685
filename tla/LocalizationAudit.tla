-------------------------- MODULE LocalizationAudit --------------------------
(***************************************************************************)
(* audit_localization: the rules of domain/usecases/audit_localization.py. *)
(* The places: "page", a Dart file, whose traits are its flaws and the     *)
(* l10n keys it uses; "app", the file of MaterialApp with pubspec.yaml,    *)
(* whose traits are what is wired and the locales it declares; and each    *)
(* locale, whose traits are "file" when its .arb exists and its keys.      *)
(***************************************************************************)
EXTENDS Findings

Locales == {"en", "pl", "ar"}
RightToLeft == {"ar"}
Keys == {"k1", "k2"}

PageTraits == Keys \cup {"hardcoded", "hardcoded_twelve", "concatenation", "plural_if"}
AppTraits == Locales \cup {"app", "supported", "delegates", "directionality", "sdk_dep"}

ArbLocales(p) == {l \in Locales : "file" \in p[l]}

(* en, else the first in the alphabet.                                      *)
DefaultLocale(p) ==
    IF "en" \in ArbLocales(p) THEN "en" ELSE IF "ar" \in ArbLocales(p) THEN "ar" ELSE "pl"

DefaultKeys(p) == IF ArbLocales(p) = {} THEN {} ELSE p[DefaultLocale(p)] \cap Keys

Found(rule, place, line, sev, lvl, fixes) ==
    [rule |-> rule, place |-> place, line |-> line, sev |-> sev, lvl |-> lvl, fixes |-> fixes]

(* The key k moves the text of the page into every .arb.                    *)
Translate(p, flaw) ==
    {[x \in DOMAIN p |->
        CASE x = "page" -> (p[x] \ {flaw}) \cup {k}
          [] x \in ArbLocales(p) -> p[x] \cup {k}
          [] OTHER -> p[x]] : k \in Keys}

Flaw(p, flaw, rule, lvl) ==
    IF flaw \in p["page"]
    THEN {Found(rule, "page", 0, 2, lvl, {[p EXCEPT !["page"] = @ \ {flaw}]})} ELSE {}

DartFindings(p) ==
    {Found("hardcoded_user_text", "page", 1, 2, Junior, Translate(p, "hardcoded"))
        : x \in p["page"] \cap {"hardcoded"}}
    \cup {Found("hardcoded_user_text", "page", 1 + i, 2, Junior, Translate(p, "hardcoded_twelve"))
        : i \in IF "hardcoded_twelve" \in p["page"] THEN 1..12 ELSE {}}
    \cup Flaw(p, "concatenation", "direct_text_concatenation", Mid)
    \cup Flaw(p, "plural_if", "pluralization_via_if", Staff)
    \cup {Found("missing_l10n_key", k, 0, 1, Mid, {[p EXCEPT ![DefaultLocale(p)] = @ \cup {k}]})
        : k \in IF DefaultKeys(p) = {} THEN {} ELSE (p["page"] \cap Keys) \ DefaultKeys(p)}

MissingKeysPerLocale(p) ==
    UNION {{Found("missing_translation_for_locale", l, IF k = "k1" THEN 1 ELSE 2, 2, Mid,
                  {[p EXCEPT ![l] = @ \cup {k}]}) : k \in DefaultKeys(p) \ p[l]} : l \in ArbLocales(p) \ {DefaultLocale(p)}}

UnusedKeys(p) ==
    {Found("unused_l10n_key", k, 0, 3, Mid,
           {[p EXCEPT ![DefaultLocale(p)] = @ \ {k}], [p EXCEPT !["page"] = @ \cup {k}]})
       : k \in DefaultKeys(p) \ p["page"]}

When(condition, findings) == IF condition THEN findings ELSE {}

(* The wiring of pubspec.yaml and of the file with the app.                 *)
Wiring(p) ==
    LET has(x) == x \in p["app"]
        locales == ArbLocales(p)
        extraInCode == (p["app"] \cap Locales) \ locales
        extraInArb == locales \ p["app"]
        wired(more) == [p EXCEPT !["app"] = @ \cup more]
        withArb == [l \in DOMAIN p |-> IF l \in extraInCode THEN {"file"} \cup DefaultKeys(p) ELSE p[l]]
        withoutArb == [l \in DOMAIN p |-> IF l \in extraInArb THEN {} ELSE p[l]]
    IN  When(~has("sdk_dep"),
            {Found("missing_flutter_localizations", "pubspec", 0, 1, Senior, {wired({"sdk_dep"})})})
        \cup When(has("app") /\ has("supported") /\ extraInCode # {},
            {Found("supported_locales_mismatch", "app", 1, 2, Senior,
                   {withArb, [p EXCEPT !["app"] = @ \ extraInCode]})})
        \cup When(has("app") /\ has("supported") /\ extraInArb # {},
            {Found("supported_locales_mismatch", "app", 2, 2, Senior, {withoutArb, wired(extraInArb)})})
        \cup When(has("app") /\ ~has("delegates"),
            {Found("missing_localizations_delegates", "app", 0, 1, Senior, {wired({"delegates"})})})
        \cup When(has("app") /\ locales \cap RightToLeft # {} /\ ~has("directionality"),
            {Found("right_to_left_unsupported", "app", 0, 2, Staff, {wired({"directionality"})})})

LocalizationFindings(p) ==
    IF p = <<>> THEN {}
    ELSE DartFindings(p) \cup MissingKeysPerLocale(p) \cup UnusedKeys(p)
            \cup (IF ArbLocales(p) = {} THEN {} ELSE Wiring(p))

Hardcoded(p) ==
    (IF "hardcoded" \in p["page"] THEN 1 ELSE 0) + (IF "hardcoded_twelve" \in p["page"] THEN 12 ELSE 0)

LocalizationWeights == <<10, 4, 1>>

(* 1 well_localized, 2 acceptable, 3 single_locale, 4 missing_l10n.         *)
LocalizationGrade(kept, size, locales, hardcoded) ==
    LET w == Weight(LocalizationWeights, kept)
    IN  IF locales = 0 /\ hardcoded > 10 THEN 4
        ELSE IF locales <= 1 \/ AtLeast(w, 10, size) \/ hardcoded >= 50 THEN 3
        ELSE IF AtLeast(w, 3, size) \/ hardcoded >= 10 THEN 2
        ELSE 1
=============================================================================
