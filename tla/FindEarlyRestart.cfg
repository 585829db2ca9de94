SPECIFICATION Spec
CONSTANT RetryLimit = 2
PROPERTY RestartAfterVbusDrop
