-------------------------- MODULE PerformanceAudit --------------------------
(***************************************************************************)
(* audit_performance: the rules of domain/usecases/audit_performance.py on *)
(* a file of widgets.                                                      *)
(***************************************************************************)
EXTENDS Findings

PerformanceTraits ==
    {"eager_list", "animated_opacity", "shrink_wrap", "image", "cache_size", "setState_listener",
     "animation_controller", "dispose", "animated_builder", "scroll_view", "column", "spread",
     "heavy_build", "repaint_boundary", "implicit_animation", "duration_zero"}

PerformanceLineRules(t) ==
    [non_lazy_list |-> Rule(1, Junior, "eager_list" \in t, {t \ {"eager_list"}}),
     opacity_animated |->
        Rule(1, Junior, "animated_opacity" \in t,
             {t \ {"animated_opacity"}, (t \ {"animated_opacity"}) \cup {"implicit_animation"}}),
     shrinkwrap_list |-> Rule(2, Junior, "shrink_wrap" \in t, {t \ {"shrink_wrap"}}),
     image_no_cache_size |->
        Rule(2, Junior, "image" \in t /\ "cache_size" \notin t, {t \cup {"cache_size"}})]

PerformanceFileRules(t) ==
    [setstate_in_animation |->
        Rule(1, Junior, "setState_listener" \in t, {(t \ {"setState_listener"}) \cup {"animated_builder"}}),
     controller_not_disposed |->
        Rule(1, Junior, "animation_controller" \in t /\ "dispose" \notin t, {t \cup {"dispose"}}),
     nested_scroll_column |->
        Rule(2, Junior, {"scroll_view", "column", "spread"} \subseteq t, {t \ {"scroll_view", "column"}}),
     heavy_work_in_build |-> Rule(2, Junior, "heavy_build" \in t, {t \ {"heavy_build"}}),
     missing_repaint_boundary |->
        Rule(3, Junior, t \cap {"animation_controller", "animated_builder"} # {} /\ "repaint_boundary" \notin t,
             {t \cup {"repaint_boundary"}}),
     implicit_anim_zero |->
        Rule(3, Junior, {"implicit_animation", "duration_zero"} \subseteq t,
             {t \ {"duration_zero"}, t \ {"implicit_animation"}})]

PerformanceFindings(p) ==
    UNION {At(x, PerformanceLineRules(p[x])) \cup At(x, PerformanceFileRules(p[x])) : x \in DOMAIN p}

PerformanceWeights == <<6, 2, 1>>

(* 1 smooth, 2 acceptable, 3 janky, 4 severe.                               *)
PerformanceGrade(kept, size, files) ==
    LET w == Weight(PerformanceWeights, kept)
    IN  IF files = 0 THEN 1
        ELSE IF kept[1] >= 5 \/ AtLeast(w, 12, size) THEN 4
        ELSE IF kept[1] > 0 \/ AtLeast(w, 4, size) THEN 3
        ELSE IF AtLeast(w, 1, size) THEN 2
        ELSE 1
=============================================================================
