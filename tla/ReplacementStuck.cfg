SPECIFICATION Spec
CONSTANT Scenarios = {{}}
PROPERTY TransientPhasesAdvance
