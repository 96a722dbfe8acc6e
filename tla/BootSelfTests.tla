---------------------------- MODULE BootSelfTests ----------------------------
(***************************************************************************)
(* The synthetic plans of boot_ledger_self_test (src/kernel/boot_ledger.c) *)
(* and boot_plan_pointer_absence_self_test (src/kernel/boot_plan.c), each  *)
(* with the status the self test expects and the capabilities it must      *)
(* never see.                                                              *)
(***************************************************************************)
EXTENDS BootPlan

CONSTANT StageLimit     \* BOOT_LEDGER_STAGE_CAPACITY

self_test_success == Executor(<<>>, {"ran"})

self_test_skip == Executor(<<>>, {"skipped"})

self_test_fail == Executor(<<>>, {"failed"})

self_test_undeclared == Executor(<<>>, {"undeclared"})

self_test_descriptor(stage, phase, mandatory, execute) ==
    Stage(stage, phase, "NONE", mandatory, FALSE, execute) @@ Declared(<<>>, <<>>, <<>>)

(* One test: its stages, what is forged, the verdict, what must not leak. *)
Test(stages, tamper, expect, never) ==
    [ stages |-> stages, tamper |-> tamper, expect |-> expect, never |-> never,
      machines |-> {[present |-> {}, scenario |-> "NONE"]} ]

Refused(stages, expect) == Test(stages, "none", expect, {})

With_lists(d, lists) == lists @@ d

serial == self_test_descriptor("EARLY_SERIAL", FOUNDATION, TRUE, self_test_success)

idt == self_test_descriptor("INTERRUPT_FOUNDATION", FOUNDATION, TRUE, self_test_success)

information == self_test_descriptor("BOOT_INFORMATION", DISCOVERY, TRUE, self_test_success)

self_test_mixed_plan ==
    << With_lists(serial, Declared(<<>>, <<"EARLY_SERIAL_AVAILABLE">>, <<>>)),
       With_lists(information,
                  Declared(<<"EARLY_SERIAL_AVAILABLE">>, <<"BOOT_INFORMATION_VALIDATED">>, <<>>)),
       With_lists(self_test_descriptor("FRAME_ALLOCATOR", CONTROLLERS, TRUE, self_test_success),
                  Declared(<<"BOOT_INFORMATION_VALIDATED">>,
                           <<"PHYSICAL_FRAME_ALLOCATOR_AVAILABLE">>, <<>>)),
       With_lists(self_test_descriptor("MEMORY_RUNTIME", RUNTIME, TRUE, self_test_success),
                  Declared(<<"PHYSICAL_FRAME_ALLOCATOR_AVAILABLE">>, <<"HEAP_AVAILABLE">>, <<>>)),
       With_lists(self_test_descriptor("FRAMEBUFFER_WC", RUNTIME, FALSE, self_test_success),
                  Declared(<<"BOOT_INFORMATION_VALIDATED">>,
                           <<"FRAMEBUFFER_WC_INDEPENDENTLY_PROVED">>, <<>>)) >>

permuted(s) == << s[4], s[5], s[3], s[2], s[1] >>

mixed_tests ==
    [ mixed |-> Refused(self_test_mixed_plan, "OK"),
      mixed_permuted |-> Refused(permuted(self_test_mixed_plan), "OK"),
      forged_sequence |-> Test(self_test_mixed_plan, "sequence",
                               "INSTALLED_PLAN_DIFFERS_VALIDATED_PLAN", {}),
      forged_capability |-> Test(self_test_mixed_plan, "capability",
                                 "UNDECLARED_CAPABILITY_PROVIDED", {}) ]

(* Plans boot_ledger_validate must refuse. *)
refusal_tests ==
    LET provides(d, c) == With_lists(d, Declared(<<>>, <<c>>, <<>>))
        needs(d, r, c) == With_lists(d, Declared(<<r>>, <<c>>, <<>>))
    IN  [ missing_provider |->
              Refused(<<With_lists(self_test_descriptor("PAGING_INSTALL", MEMORY_TRANSITION, TRUE,
                                                        self_test_success),
                                   Declared(<<"DEVICE_WINDOW_REGISTRY_VALIDATED">>, <<>>, <<>>))>>,
                      "MISSING_CAPABILITY_PROVIDER"),
          duplicate_stage |-> Refused(<<serial, serial>>, "DUPLICATE_STAGE"),
          duplicate_provider |->
              Refused(<<provides(serial, "EARLY_SERIAL_AVAILABLE"),
                        provides(idt, "EARLY_SERIAL_AVAILABLE")>>,
                      "DUPLICATE_CAPABILITY_PROVIDER"),
          duplicate_requirement |->
              Refused(<<provides(serial, "EARLY_SERIAL_AVAILABLE"),
                        With_lists(information,
                                   Declared(<<"EARLY_SERIAL_AVAILABLE", "EARLY_SERIAL_AVAILABLE">>,
                                            <<"BOOT_INFORMATION_VALIDATED">>, <<>>))>>,
                      "DUPLICATE_CAPABILITY_REQUIREMENT"),
          unknown_stage |->
              Refused(<<[information EXCEPT !.stage = "BOOT_STAGE_COUNT"]>>,
                      "UNKNOWN_STAGE_IDENTIFIER"),
          unknown_capability |->
              Refused(<<provides(serial, "BOOT_CAPABILITY_COUNT")>>, "UNKNOWN_CAPABILITY"),
          direct_cycle |->
              Refused(<<needs(serial, "IDT_INSTALLED", "EARLY_SERIAL_AVAILABLE"),
                        needs(idt, "EARLY_SERIAL_AVAILABLE", "IDT_INSTALLED")>>,
                      "CAPABILITY_DEPENDENCY_CYCLE"),
          long_cycle |->
              Refused(<<needs(serial, "BOOT_SELF_TESTS_COMPLETE", "EARLY_SERIAL_AVAILABLE"),
                        needs(idt, "EARLY_SERIAL_AVAILABLE", "IDT_INSTALLED"),
                        needs(self_test_descriptor("PURE_SELF_TESTS", FOUNDATION, TRUE,
                                                   self_test_success),
                              "IDT_INSTALLED", "BOOT_SELF_TESTS_COMPLETE")>>,
                      "CAPABILITY_DEPENDENCY_CYCLE"),
          capacity |-> Refused([i \in 1 .. StageLimit + 1 |-> serial], "TOO_MANY_STAGES") ]

(* Results: undeclared, failed, skipped, and an identifier changed late. *)
result_tests ==
    LET wc(execute) == self_test_descriptor("FRAMEBUFFER_WC", RUNTIME, FALSE, execute)
    IN  [ undeclared |->
              Refused(<<[serial EXCEPT !.execute = self_test_undeclared,
                                       !.provided = <<"EARLY_SERIAL_AVAILABLE">>]>>,
                      "UNDECLARED_CAPABILITY_PROVIDED"),
          optional_failure |->
              Test(<<[wc(self_test_fail) EXCEPT
                        !.provided = <<"FRAMEBUFFER_WC_INDEPENDENTLY_PROVED">>]>>,
                   "none", "OK", {"FRAMEBUFFER_WC_INDEPENDENTLY_PROVED"}),
          required_failure |->
              Test(<<[self_test_descriptor("FRAME_ALLOCATOR", CONTROLLERS, TRUE, self_test_success)
                        EXCEPT !.required = <<"BOOT_INFORMATION_VALIDATED">>],
                     [information EXCEPT !.execute = self_test_fail,
                                         !.provided = <<"BOOT_INFORMATION_VALIDATED">>]>>,
                   "none", "REQUIRED_STAGE_FAILED", {"BOOT_INFORMATION_VALIDATED"}),
          mutated_identifier |-> Test(<<serial>>, "identifier", "PLAN_FINGERPRINT_MISMATCH", {}),
          framebuffer_absent |->
              Refused(<<[self_test_descriptor("PCI", SERVICES, TRUE, self_test_success) EXCEPT
                            !.provided = <<"PCI_ACCESS_AVAILABLE">>],
                        [wc(self_test_skip) EXCEPT !.skipped = <<"FRAMEBUFFER_SERIAL_FALLBACK">>]>>,
                      "OK") ]

(* Outcomes: one capability common to running and to a neutral skip. *)
outcome_tests ==
    LET process(provided, skipped, neutral, execute) ==
            With_lists([self_test_descriptor("PROCESS_INSTALLED_PROOF", SERVICES, FALSE, execute)
                           EXCEPT !.neutral = neutral],
                       Declared(<<>>, provided, skipped))
        decided(skipped, execute) ==
            process(<<"PROCESS_INSTALLED_PROOF_COMPLETE", "PROCESS_OUTCOME_DECIDED">>, skipped,
                    TRUE, execute)
        absent == <<"PROCESS_FIXTURE_ABSENT", "PROCESS_OUTCOME_DECIDED">>
        closing == [self_test_descriptor("CLOSING_PROOFS", PROOFS, TRUE, self_test_success)
                       EXCEPT !.required = <<"PROCESS_OUTCOME_DECIDED">>]
    IN  [ process_absent |->
              Test(<<closing, decided(absent, self_test_skip)>>, "none", "OK",
                   {"PROCESS_INSTALLED_PROOF_COMPLETE"}),
          process_complete |->
              Test(<<closing, decided(absent, self_test_success)>>, "none", "OK",
                   {"PROCESS_FIXTURE_ABSENT"}),
          common_repeated |->
              Refused(<<decided(<<"PROCESS_OUTCOME_DECIDED", "PROCESS_OUTCOME_DECIDED">>,
                                self_test_success)>>,
                      "DUPLICATE_CAPABILITY_PROVIDER"),
          outcome_shared |->
              Refused(<<process(<<"PROCESS_OUTCOME_DECIDED">>, <<>>, FALSE, self_test_success),
                        [self_test_descriptor("ELF64_LOADER_FOUNDATION", SERVICES, FALSE,
                                              self_test_skip)
                            EXCEPT !.skipped = <<"PROCESS_OUTCOME_DECIDED">>, !.neutral = TRUE]>>,
                      "DUPLICATE_CAPABILITY_PROVIDER"),
          required_neutral |->
              Refused(<<[process(<<>>, <<"PROCESS_FIXTURE_ABSENT">>, TRUE, self_test_skip)
                            EXCEPT !.mandatory = TRUE]>>,
                      "INVALID_NEUTRAL_SKIP") ]

synthetic_stage_success == self_test_success

synthetic_pointer_absent == self_test_skip

(* The stages of the two pointer tests. *)
pointer_tests ==
    LET outcome == [self_test_descriptor("POINTER_OUTCOME", RUNTIME, FALSE,
                                         synthetic_pointer_absent) EXCEPT
                        !.provided = <<"POINTER_INPUT_AVAILABLE">>,
                        !.skipped = <<"POINTER_INPUT_ABSENT">>, !.neutral = TRUE]
    IN  [ pointer_absent |-> Test(<<outcome>>, "none", "OK", {"POINTER_INPUT_AVAILABLE"}),
          boot_plan_pointer_absence_self_test |->
              Test(<<[self_test_descriptor("POINTER_DECISION", RUNTIME, TRUE,
                                           synthetic_stage_success) EXCEPT
                        !.provided = <<"POINTER_AVAILABILITY_DECIDED">>],
                     [outcome EXCEPT !.required = <<"POINTER_AVAILABILITY_DECIDED">>],
                     With_lists(self_test_descriptor("UI_LAYOUT", RUNTIME, TRUE,
                                                     synthetic_stage_success),
                                Declared(<<"POINTER_AVAILABILITY_DECIDED", "POINTER_INPUT_ABSENT">>,
                                         <<"UI_LAYOUT_VALIDATED">>, <<>>)),
                     With_lists(self_test_descriptor("DESKTOP_CONSTRUCTION", PROOFS, TRUE,
                                                     synthetic_stage_success),
                                Declared(<<"POINTER_INPUT_ABSENT", "UI_LAYOUT_VALIDATED">>,
                                         <<"DESKTOP_SHELL_AVAILABLE">>, <<>>))>>,
                   "none", "OK", {"POINTER_INPUT_AVAILABLE"}) ]

boot_ledger_self_test ==
    mixed_tests @@ refusal_tests @@ result_tests @@ outcome_tests @@ pointer_tests

===============================================================================
