------------------------------- MODULE MCTrunk -------------------------------
EXTENDS Trunk
MCConfs == {{}, {"delay"}, {"delay", "status_check", "one_answer"},
            {"status_check", "lifetime"},
            {"cancel_mux", "lifetime", "backlog_on_failed"}}
=============================================================================
